---- MODULE Spec2Model ----
(***************************************************************************)
(* DOOM NewGame+ Customizer: the starting-inventory data model             *)
(* (src/src/datalib), its declaration-file generator and the App callbacks *)
(* (src/src/app.py) that mutate it.                                        *)
(*                                                                         *)
(* Entries are identified by their name (names are unique across all       *)
(* module classes).  A module's `available` list is a sequence of entry    *)
(* names in insertion order.  Python's None is the string "None" for       *)
(* optional strings and FALSE for optional booleans that are only tested   *)
(* for truthiness.                                                         *)
(***************************************************************************)
EXTENDS Integers, Sequences, FiniteSets, TLC

(***************************************************************************)
(* Bounds of the model.                                                    *)
(***************************************************************************)
\* requested Argent levels are drawn from -LevelSlack .. MaxLevel + LevelSlack
LevelSlack == 2

\* number of operations in one run of the application-level specifications
MaxSteps == 3

\* number of calls in one run of the library-level specification
MaxCalls == 2

(***************************************************************************)
(* Program constants.                                                      *)
(***************************************************************************)
\* clamp(level, 0, 4)
MinLevel == 0

MaxLevel == 4

\* `if level > 3 ...: level = 3`
DowngradedLevel == 3

(***************************************************************************)
(* The catalogs: every element defined as a class attribute of a module    *)
(* class, in class-body order (the order of vars(cls), which is the order  *)
(* addAllToAvailable walks).                                               *)
(***************************************************************************)
ArgentCatalog ==
  <<
    [name |-> "healthCapacity", path |-> "\"perk/zion/player/sp/enviroment_suit/health_capacity\""],
    [name |-> "armorCapacity", path |-> "\"perk/zion/player/sp/enviroment_suit/armor_capacity\""],
    [name |-> "ammoCapacity", path |-> "\"perk/zion/player/sp/enviroment_suit/ammo_capacity\""]
  >>

PraetorCatalog ==
  <<
    [name |-> "hazardProtection", path |-> "\"perk/zion/player/sp/enviroment_suit/modify_enviromental_damage_1\"", unlockable |-> "None"],
    [name |-> "selfPreservation", path |-> "\"perk/zion/player/sp/enviroment_suit/modify_enviromental_damage_2\"", unlockable |-> "None"],
    [name |-> "barrelsOFun", path |-> "\"perk/zion/player/sp/enviroment_suit/modify_enviromental_damage_3\"", unlockable |-> "None"],
    [name |-> "itemAwareness", path |-> "\"perk/zion/player/sp/enviroment_suit/automap_1\"", unlockable |-> "\"researchprojects/find_collectibles_1\""],
    [name |-> "secretSense", path |-> "\"perk/zion/player/sp/enviroment_suit/automap_2\"", unlockable |-> "None"],
    [name |-> "fullView", path |-> "\"perk/zion/player/sp/enviroment_suit/automap_3\"", unlockable |-> "None"],
    [name |-> "quickCharge", path |-> "\"perk/zion/player/sp/enviroment_suit/equipment_1\"", unlockable |-> "\"researchprojects/equipment_1\""],
    [name |-> "stockUp", path |-> "\"perk/zion/player/sp/enviroment_suit/equipment_2\"", unlockable |-> "None"],
    [name |-> "rapidCharge", path |-> "\"perk/zion/player/sp/enviroment_suit/equipment_3\"", unlockable |-> "None"],
    [name |-> "powerSurge", path |-> "\"perk/zion/player/sp/enviroment_suit/powerup_shockwave\"", unlockable |-> "None"],
    [name |-> "healingPower", path |-> "\"perk/zion/player/sp/enviroment_suit/powerup_health\"", unlockable |-> "None"],
    [name |-> "powerExtender", path |-> "\"perk/zion/player/sp/enviroment_suit/modify_powerup_duration\"", unlockable |-> "None"],
    [name |-> "adept", path |-> "\"perk/zion/player/sp/enviroment_suit/dexterity_increase_1\"", unlockable |-> "None"],
    [name |-> "quickHands", path |-> "\"perk/zion/player/sp/enviroment_suit/dexterity_increase_2\"", unlockable |-> "None"],
    [name |-> "hotSwap", path |-> "\"perk/zion/player/sp/enviroment_suit/dexterity_increase_3\"", unlockable |-> "None"]
  >>

EquipmentCatalog ==
  <<
    [name |-> "doubleJumpThrustBoots", path |-> "\"jumpboots/base\"", equip |-> TRUE],
    [name |-> "fragGrenade", path |-> "\"throwable/zion/player/sp/frag_grenade\"", equip |-> TRUE],
    [name |-> "siphonGrenade", path |-> "\"throwable/zion/player/sp/siphon_grenade\"", equip |-> FALSE],
    [name |-> "decoyHologram", path |-> "\"decoyhologram/equipment\"", equip |-> FALSE]
  >>

WeaponsCatalog ==
  <<
    [name |-> "fists", path |-> "\"weapon/zion/player/sp/fists\"", equip |-> FALSE, equipReserve |-> FALSE, ammoType |-> "not specified"],
    [name |-> "chainsaw", path |-> "\"weapon/zion/player/sp/chainsaw\"", equip |-> FALSE, equipReserve |-> FALSE, ammoType |-> "fuel"],
    [name |-> "pistol", path |-> "\"weapon/zion/player/sp/pistol\"", equip |-> TRUE, equipReserve |-> FALSE, ammoType |-> "not specified"],
    [name |-> "combatShotgun", path |-> "\"weapon/zion/player/sp/shotgun\"", equip |-> FALSE, equipReserve |-> FALSE, ammoType |-> "shells"],
    [name |-> "heavyAssaultRifle", path |-> "\"weapon/zion/player/sp/heavy_rifle_heavy_ar\"", equip |-> FALSE, equipReserve |-> TRUE, ammoType |-> "bullets"],
    [name |-> "plasmaRifle", path |-> "\"weapon/zion/player/sp/plasma_rifle\"", equip |-> FALSE, equipReserve |-> FALSE, ammoType |-> "cells"],
    [name |-> "rocketLauncher", path |-> "\"weapon/zion/player/sp/rocket_launcher\"", equip |-> FALSE, equipReserve |-> FALSE, ammoType |-> "rockets"],
    [name |-> "superShotgun", path |-> "\"weapon/zion/player/sp/double_barrel\"", equip |-> FALSE, equipReserve |-> FALSE, ammoType |-> "shells"],
    [name |-> "gaussCannon", path |-> "\"weapon/zion/player/sp/gauss_rifle\"", equip |-> FALSE, equipReserve |-> FALSE, ammoType |-> "not specified"],
    [name |-> "chaingun", path |-> "\"weapon/zion/player/sp/chaingun\"", equip |-> FALSE, equipReserve |-> FALSE, ammoType |-> "bullets"],
    [name |-> "bfg9000", path |-> "\"weapon/zion/player/sp/bfg\"", equip |-> FALSE, equipReserve |-> FALSE, ammoType |-> "bfg"]
  >>

WeaponModsCatalog ==
  <<
    [name |-> "chargeEfficiency", path |-> "\"perk/zion/player/sp/weapons/pistol/secondary_charge_shot_faster_charge\"", applicableWeapon |-> "pistol", applicableMod |-> "non-mod Upgrade"],
    [name |-> "quickRecovery", path |-> "\"perk/zion/player/sp/weapons/pistol/secondary_charge_shot_faster_discharge\"", applicableWeapon |-> "pistol", applicableMod |-> "non-mod Upgrade"],
    [name |-> "lightWeight", path |-> "\"perk/zion/player/sp/weapons/pistol/secondary_charge_shot_no_movement_penalty\"", applicableWeapon |-> "pistol", applicableMod |-> "non-mod Upgrade"],
    [name |-> "increasedPowerMastery", path |-> "\"perk/zion/player/sp/weapons/pistol/secondary_charge_shot_higher_damage\"", applicableWeapon |-> "pistol", applicableMod |-> "non-mod Upgrade"],
    [name |-> "chargedBurst", path |-> "\"perk/zion/player/sp/weapons/shotgun/secondary_charge_burst\"", applicableWeapon |-> "combatShotgun", applicableMod |-> "isBaseMod"],
    [name |-> "chargedBurst_speedyRecovery", path |-> "\"perk/zion/player/sp/weapons/shotgun/secondary_charge_burst_faster_recharge\"", applicableWeapon |-> "combatShotgun", applicableMod |-> "chargedBurst"],
    [name |-> "chargedBurst_rapidFire", path |-> "\"perk/zion/player/sp/weapons/shotgun/secondary_charge_burst_faster_fire_rate\"", applicableWeapon |-> "combatShotgun", applicableMod |-> "chargedBurst"],
    [name |-> "chargedBurst_quickLoad", path |-> "\"perk/zion/player/sp/weapons/shotgun/secondary_charge_burst_faster_charge\"", applicableWeapon |-> "combatShotgun", applicableMod |-> "chargedBurst"],
    [name |-> "chargedBurst_powerShot_mastery", path |-> "\"perk/zion/player/sp/weapons/shotgun/secondary_charge_burst_mastery\"", applicableWeapon |-> "combatShotgun", applicableMod |-> "chargedBurst"],
    [name |-> "explosiveShot", path |-> "\"perk/zion/player/sp/weapons/shotgun/pop_rocket\"", applicableWeapon |-> "combatShotgun", applicableMod |-> "isBaseMod"],
    [name |-> "explosiveShot_speedyRecovery", path |-> "\"perk/zion/player/sp/weapons/shotgun/pop_rocket_faster_recharge\"", applicableWeapon |-> "combatShotgun", applicableMod |-> "explosiveShot"],
    [name |-> "explosiveShot_biggerBoom", path |-> "\"perk/zion/player/sp/weapons/shotgun/pop_rocket_larger_explosion\"", applicableWeapon |-> "combatShotgun", applicableMod |-> "explosiveShot"],
    [name |-> "explosiveShot_instantLoad", path |-> "\"perk/zion/player/sp/weapons/shotgun/pop_rocket_faster_charge\"", applicableWeapon |-> "combatShotgun", applicableMod |-> "explosiveShot"],
    [name |-> "explosiveShot_clusterStrike_mastery", path |-> "\"perk/zion/player/sp/weapons/shotgun/pop_rocket_mastery\"", applicableWeapon |-> "combatShotgun", applicableMod |-> "explosiveShot"],
    [name |-> "fasterReload", path |-> "\"perk/zion/player/sp/weapons/double_barrel/default_faster_reload\"", applicableWeapon |-> "superShotgun", applicableMod |-> "non-mod Upgrade"],
    [name |-> "uraniumCoating", path |-> "\"perk/zion/player/sp/weapons/double_barrel/default_bullet_penetration\"", applicableWeapon |-> "superShotgun", applicableMod |-> "non-mod Upgrade"],
    [name |-> "doubleTrouble_mastery", path |-> "\"perk/zion/player/sp/weapons/double_barrel/mastery\"", applicableWeapon |-> "superShotgun", applicableMod |-> "non-mod Upgrade"],
    [name |-> "tacticalScope", path |-> "\"perk/zion/player/sp/weapons/heavy_rifle_heavy_ar/zoom\"", applicableWeapon |-> "heavyAssaultRifle", applicableMod |-> "isBaseMod"],
    [name |-> "tacticalScope_uraniumCoating", path |-> "\"perk/zion/player/sp/weapons/heavy_rifle_heavy_ar/zoom_bullet_penetration\"", applicableWeapon |-> "heavyAssaultRifle", applicableMod |-> "tacticalScope"],
    [name |-> "tacticalScope_skullCracker", path |-> "\"perk/zion/player/sp/weapons/heavy_rifle_heavy_ar/zoom_more_headshot_damage\"", applicableWeapon |-> "heavyAssaultRifle", applicableMod |-> "tacticalScope"],
    [name |-> "tacticalScope_lightWeight", path |-> "\"perk/zion/player/sp/weapons/heavy_rifle_heavy_ar/zoom_no_movement_penalty\"", applicableWeapon |-> "heavyAssaultRifle", applicableMod |-> "tacticalScope"],
    [name |-> "tacticalScope_devastatorRounds_mastery", path |-> "\"perk/zion/player/sp/weapons/heavy_rifle_heavy_ar/zoom_mastery\"", applicableWeapon |-> "heavyAssaultRifle", applicableMod |-> "tacticalScope"],
    [name |-> "microMissiles", path |-> "\"perk/zion/player/sp/weapons/heavy_rifle_heavy_ar/burst_detonate\"", applicableWeapon |-> "heavyAssaultRifle", applicableMod |-> "isBaseMod"],
    [name |-> "microMissiles_ammoEfficient", path |-> "\"perk/zion/player/sp/weapons/heavy_rifle_heavy_ar/burst_detonate_lower_ammo_cost\"", applicableWeapon |-> "heavyAssaultRifle", applicableMod |-> "microMissiles"],
    [name |-> "microMissiles_advancedLoader", path |-> "\"perk/zion/player/sp/weapons/heavy_rifle_heavy_ar/burst_detonate_faster_recharge\"", applicableWeapon |-> "heavyAssaultRifle", applicableMod |-> "microMissiles"],
    [name |-> "microMissiles_quickLauncher", path |-> "\"perk/zion/player/sp/weapons/heavy_rifle_heavy_ar/burst_detonate_faster_charge_time\"", applicableWeapon |-> "heavyAssaultRifle", applicableMod |-> "microMissiles"],
    [name |-> "microMissiles_bottomlessMissiles_mastery", path |-> "\"perk/zion/player/sp/weapons/heavy_rifle_heavy_ar/burst_detonate_mastery\"", applicableWeapon |-> "heavyAssaultRifle", applicableMod |-> "microMissiles"],
    [name |-> "heatBlast", path |-> "\"perk/zion/player/sp/weapons/plasma_rifle/secondary_aoe\"", applicableWeapon |-> "plasmaRifle", applicableMod |-> "isBaseMod"],
    [name |-> "heatBlast_superHeatedRounds", path |-> "\"perk/zion/player/sp/weapons/plasma_rifle/secondary_aoe_faster_charge\"", applicableWeapon |-> "plasmaRifle", applicableMod |-> "heatBlast"],
    [name |-> "heatBlast_improvedVenting", path |-> "\"perk/zion/player/sp/weapons/plasma_rifle/secondary_aoe_faster_recovery\"", applicableWeapon |-> "plasmaRifle", applicableMod |-> "heatBlast"],
    [name |-> "heatBlast_expandedThreshold", path |-> "\"perk/zion/player/sp/weapons/plasma_rifle/secondary_aoe_more_damage\"", applicableWeapon |-> "plasmaRifle", applicableMod |-> "heatBlast"],
    [name |-> "heatBlast_heatedCore_mastery", path |-> "\"perk/zion/player/sp/weapons/plasma_rifle/secondary_aoe_mastery\"", applicableWeapon |-> "plasmaRifle", applicableMod |-> "heatBlast"],
    [name |-> "stunBomb", path |-> "\"perk/zion/player/sp/weapons/plasma_rifle/secondary_stun\"", applicableWeapon |-> "plasmaRifle", applicableMod |-> "isBaseMod"],
    [name |-> "stunBomb_quickRecharge", path |-> "\"perk/zion/player/sp/weapons/plasma_rifle/secondary_stun_faster_recharge\"", applicableWeapon |-> "plasmaRifle", applicableMod |-> "stunBomb"],
    [name |-> "stunBomb_bigShock", path |-> "\"perk/zion/player/sp/weapons/plasma_rifle/secondary_stun_larger_radius\"", applicableWeapon |-> "plasmaRifle", applicableMod |-> "stunBomb"],
    [name |-> "stunBomb_largerStun", path |-> "\"perk/zion/player/sp/weapons/plasma_rifle/secondary_stun_longer_stun\"", applicableWeapon |-> "plasmaRifle", applicableMod |-> "stunBomb"],
    [name |-> "stunBomb_chainStun_mastery", path |-> "\"perk/zion/player/sp/weapons/plasma_rifle/secondary_stun_mastery\"", applicableWeapon |-> "plasmaRifle", applicableMod |-> "stunBomb"],
    [name |-> "lockOnBurst", path |-> "\"perk/zion/player/sp/weapons/rocket_launcher/lock_on\"", applicableWeapon |-> "rocketLauncher", applicableMod |-> "isBaseMod"],
    [name |-> "lockOnBurst_quickLock", path |-> "\"perk/zion/player/sp/weapons/rocket_launcher/lockon_decrease_lock_time\"", applicableWeapon |-> "rocketLauncher", applicableMod |-> "lockOnBurst"],
    [name |-> "lockOnBurst_fasterRecovery", path |-> "\"perk/zion/player/sp/weapons/rocket_launcher/lockon_faster_recovery\"", applicableWeapon |-> "rocketLauncher", applicableMod |-> "lockOnBurst"],
    [name |-> "lockOnBurst_multiTargeting_mastery", path |-> "\"perk/zion/player/sp/weapons/rocket_launcher/lockon_mastery\"", applicableWeapon |-> "rocketLauncher", applicableMod |-> "lockOnBurst"],
    [name |-> "remoteDetonation", path |-> "\"perk/zion/player/sp/weapons/rocket_launcher/detonate\"", applicableWeapon |-> "rocketLauncher", applicableMod |-> "isBaseMod"],
    [name |-> "remoteDetonation_improvedWarhead", path |-> "\"perk/zion/player/sp/weapons/rocket_launcher/detonate_larger_damage_radius\"", applicableWeapon |-> "rocketLauncher", applicableMod |-> "remoteDetonation"],
    [name |-> "remoteDetonation_jaggedShrapnel", path |-> "\"perk/zion/player/sp/weapons/rocket_launcher/detonate_dot_undead\"", applicableWeapon |-> "rocketLauncher", applicableMod |-> "remoteDetonation"],
    [name |-> "remoteDetonation_externalPayload_mastery", path |-> "\"perk/zion/player/sp/weapons/rocket_launcher/detonate_mastery\"", applicableWeapon |-> "rocketLauncher", applicableMod |-> "remoteDetonation"],
    [name |-> "precisionBolt", path |-> "\"perk/zion/player/sp/weapons/gauss_cannon/charged_sniper\"", applicableWeapon |-> "gaussCannon", applicableMod |-> "isBaseMod"],
    [name |-> "precisionBolt_energyEfficient", path |-> "\"perk/zion/player/sp/weapons/gauss_cannon/charged_sniper_reduced_max_charge\"", applicableWeapon |-> "gaussCannon", applicableMod |-> "precisionBolt"],
    [name |-> "precisionBolt_lightWeight", path |-> "\"perk/zion/player/sp/weapons/gauss_cannon/charged_sniper_no_movement_penalty\"", applicableWeapon |-> "gaussCannon", applicableMod |-> "precisionBolt"],
    [name |-> "precisionBolt_volatileDischarge_mastery", path |-> "\"perk/zion/player/sp/weapons/gauss_cannon/charged_sniper_mastery\"", applicableWeapon |-> "gaussCannon", applicableMod |-> "precisionBolt"],
    [name |-> "siegeMode", path |-> "\"perk/zion/player/sp/weapons/gauss_cannon/siege_mode\"", applicableWeapon |-> "gaussCannon", applicableMod |-> "isBaseMod"],
    [name |-> "siegeMode_outerBeam", path |-> "\"perk/zion/player/sp/weapons/gauss_cannon/siege_mode_outer_beam\"", applicableWeapon |-> "gaussCannon", applicableMod |-> "siegeMode"],
    [name |-> "siegeMode_reducedCharge", path |-> "\"perk/zion/player/sp/weapons/gauss_cannon/siege_mode_reduced_charge_time\"", applicableWeapon |-> "gaussCannon", applicableMod |-> "siegeMode"],
    [name |-> "siegeMode_mobileSiege_mastery", path |-> "\"perk/zion/player/sp/weapons/gauss_cannon/siege_mode_mastery\"", applicableWeapon |-> "gaussCannon", applicableMod |-> "siegeMode"],
    [name |-> "gatlingRotator", path |-> "\"perk/zion/player/sp/weapons/chaingun/gatling\"", applicableWeapon |-> "chaingun", applicableMod |-> "isBaseMod"],
    [name |-> "gatlingRotator_improvedTorque", path |-> "\"perk/zion/player/sp/weapons/chaingun/gatling_faster_spinup\"", applicableWeapon |-> "chaingun", applicableMod |-> "gatlingRotator"],
    [name |-> "gatlingRotator_uraniumCoating", path |-> "\"perk/zion/player/sp/weapons/chaingun/gatling_penetration\"", applicableWeapon |-> "chaingun", applicableMod |-> "gatlingRotator"],
    [name |-> "gatlingRotator_incendiaryRounds_mastery", path |-> "\"perk/zion/player/sp/weapons/chaingun/gatling_mastery\"", applicableWeapon |-> "chaingun", applicableMod |-> "gatlingRotator"],
    [name |-> "mobileTurret", path |-> "\"perk/zion/player/sp/weapons/chaingun/turret\"", applicableWeapon |-> "chaingun", applicableMod |-> "isBaseMod"],
    [name |-> "mobileTurret_rapidDeployment", path |-> "\"perk/zion/player/sp/weapons/chaingun/turret_faster_equip\"", applicableWeapon |-> "chaingun", applicableMod |-> "mobileTurret"],
    [name |-> "mobileTurret_uraniumCoating", path |-> "\"perk/zion/player/sp/weapons/chaingun/turret_penetration\"", applicableWeapon |-> "chaingun", applicableMod |-> "mobileTurret"],
    [name |-> "mobileTurret_ultimateCooling_mastery", path |-> "\"perk/zion/player/sp/weapons/chaingun/turret_mastery\"", applicableWeapon |-> "chaingun", applicableMod |-> "mobileTurret"]
  >>

AmmoCatalog ==
  <<
    [name |-> "fuel", path |-> "\"ammo/zion/sharedammopool/fuel\"", count |-> 99],
    [name |-> "shells", path |-> "\"ammo/zion/sharedammopool/shells\"", count |-> 99],
    [name |-> "bullets", path |-> "\"ammo/zion/sharedammopool/bullets\"", count |-> 999],
    [name |-> "cells", path |-> "\"ammo/zion/sharedammopool/cells\"", count |-> 999],
    [name |-> "rockets", path |-> "\"ammo/zion/sharedammopool/rockets\"", count |-> 99],
    [name |-> "bfg", path |-> "\"ammo/zion/sharedammopool/bfg\"", count |-> 99]
  >>

RunesCatalog ==
  <<
    [name |-> "vacuum", path |-> "\"perk/zion/player/sp/enviroment_suit/increase_drop_radius\""],
    [name |-> "dazedAndConfused", path |-> "\"perk/zion/player/sp/enviroment_suit/modify_enemy_stagger_duration\""],
    [name |-> "ammoBoost", path |-> "\"perk/zion/player/sp/enviroment_suit/modify_ammo_drops\""],
    [name |-> "equipmentPower", path |-> "\"perk/zion/player/sp/enviroment_suit/activate_equipment_effectiveness\""],
    [name |-> "seekAndDestroy", path |-> "\"perk/zion/player/sp/enviroment_suit/glory_kill_dash\""],
    [name |-> "savagery", path |-> "\"perk/zion/player/sp/enviroment_suit/glory_kill_speed\""],
    [name |-> "inFlightMobility", path |-> "\"perk/zion/player/sp/enviroment_suit/double_jump_air_control\""],
    [name |-> "armoredOffensive", path |-> "\"perk/zion/player/sp/enviroment_suit/glory_kills_award_armor\""],
    [name |-> "bloodFueled", path |-> "\"perk/zion/player/sp/enviroment_suit/speed_boost_on_glory_kill\""],
    [name |-> "intimacyIsBest", path |-> "\"perk/zion/player/sp/enviroment_suit/modify_enemy_stagger_toughness\""],
    [name |-> "richGetRicher", path |-> "\"perk/zion/player/sp/enviroment_suit/infinite_ammo_on_health_value\""],
    [name |-> "savingThrow", path |-> "\"perk/zion/player/sp/enviroment_suit/activate_focus_on_death_blow\""]
  >>

(***************************************************************************)
(* Helpers over sequences and catalogs.                                    *)
(***************************************************************************)
Range(s) == {s[i] : i \in 1..Len(s)}

SeqNames(cat) == [i \in 1..Len(cat) |-> cat[i].name]

\* Python `x in list` / `x not in list`
InList(n, s) == \E i \in 1..Len(s) : s[i] = n

\* list.pop() in the place of list.remove(x): drops the last element
RemoveLast(s, n) == SubSeq(s, 1, Len(s) - 1)

\* Python list.remove(x) for an x that is in the list: drops its first occurrence
RemoveFirst(s, n) ==
  LET k == CHOOSE i \in 1..Len(s) : s[i] = n /\ \A j \in 1..(i-1) : s[j] # n
  IN  SubSeq(s, 1, k-1) \o SubSeq(s, k+1, Len(s))

\* Inventory.__post_init__: the registry order of the modules
ModuleOrder ==
  <<"ArgentCellUpgrades", "PraetorSuitUpgrades", "Equipment", "Weapons",
    "WeaponMods", "Ammo", "Runes">>

Modules == Range(ModuleOrder)

\* the element names of a module class, in class-body order
CatalogNames(m) ==
  CASE m = "ArgentCellUpgrades"  -> SeqNames(ArgentCatalog)
    [] m = "PraetorSuitUpgrades" -> SeqNames(PraetorCatalog)
    [] m = "Equipment"           -> SeqNames(EquipmentCatalog)
    [] m = "Weapons"             -> SeqNames(WeaponsCatalog)
    [] m = "WeaponMods"          -> SeqNames(WeaponModsCatalog)
    [] m = "Ammo"                -> SeqNames(AmmoCatalog)
    [] m = "Runes"               -> SeqNames(RunesCatalog)

ArgentNames == Range(SeqNames(ArgentCatalog))

RuneNames == Range(SeqNames(RunesCatalog))

AllNames == UNION {Range(CatalogNames(m)) : m \in Modules}

\* the attributes of a module object that are not elements: dataclass fields
\* and methods
OtherAttrs(m) ==
  {"moduleName", "elementType", "available", "updateModuleData",
   "addToAvailable", "all", "addAllToAvailable"}
  \cup (CASE m = "ArgentCellUpgrades" -> {"setArgentLevel", "getCanUpgradeFurther"}
          [] m = "Runes" -> {"upgradedRunes", "permEquipRunes", "setIsUpgraded",
                             "setAllAreUpgraded", "setIsPermanent",
                             "setAllArePermEquip", "getRunePerkFromName"}
          [] m = "Weapons" -> {"getAmmoTypeForWeapon"}
          [] m = "WeaponMods" -> {"toggleAllBaseModsAvailable",
                                  "toggleAllModUpgradesAvailable",
                                  "getWeaponModPerkFromName",
                                  "getAllModsForWeapon", "getAllUpgradesForMod"}
          [] OTHER -> {})

\* hasattr(module, name)
HasAttr(m, n) == n \in Range(CatalogNames(m)) \cup OtherAttrs(m)

\* type(getattr(module, name)) is module.elementType (equally isinstance(.., T):
\* no element class of a module has a subclass)
IsElement(m, n) == n \in Range(CatalogNames(m))

(***************************************************************************)
(* State.                                                                  *)
(***************************************************************************)
VARIABLES
  count,      \* ArgentPerk.count of each Argent category
  avail,      \* module name -> its `available` list (entry names)
  upg,        \* RunePerk.applyUpgradesForPerk of each rune
  perm,       \* RunePerk.runePermanentEquip of each rune
  data,       \* InventoryElement.data of each entry: the last rendered mapping
  file,       \* the base.decl file as last written by generateDeclFile
  levelFiles, \* the <level>.decl files as last written by makeLevelInheritanceDecls
  doomInstallationPath,  \* App.doomInstallationPath, "None" until a directory is chosen
  switch,     \* state of the App's "toggle all" switches
  enabled,    \* widgets created disabled: whether they are enabled now
  last,       \* the operation that produced this state and its arguments
  pre,        \* count/avail/upg/perm as they were when that operation began
  prior,      \* the operation before it, and data/file when this one began
  ret,        \* what the operation returned
  raised,     \* the exception it raised, "none" if it returned
  steps       \* operations performed so far (bounded specifications only)

\* what generation reads and writes outside the inventory
outVars == <<data, file, levelFiles, doomInstallationPath>>

uiVars == <<switch, enabled>>

vars ==
  <<count, avail, upg, perm, data, file, levelFiles, doomInstallationPath, switch, enabled,
    last, pre, prior, ret, raised, steps>>

RetNone == [kind |-> "none", int |-> 0, str |-> ""]

RetInt(n) == [kind |-> "int", int |-> n, str |-> ""]

RetStr(s) == [kind |-> "str", int |-> 0, str |-> s]

Snapshot == [count |-> count, avail |-> avail, upg |-> upg, perm |-> perm]

Prior == [op |-> last.op, data |-> data, file |-> file]

Op(o, m, n, l, f) ==
  [op |-> o, mod |-> m, name |-> n, level |-> l, flag |-> f, weapon |-> ""]

\* a call of WeaponMods.addToAvailable(w, n)
OpWeaponMod(w, n) ==
  [op |-> "WeaponMods.addToAvailable", mod |-> "WeaponMods", name |-> n, level |-> 0,
   flag |-> FALSE, weapon |-> w]

SwitchNames ==
  {"toggleAllArgentSwitch", "toggleAllPraetorSwitch", "toggleAllEquipmentSwitch",
   "toggleAllWeaponsSwitch", "toggleAllRunesAvailableSwitch",
   "toggleAllRunesUpgradedSwitch", "toggleAllRunesPermEquipSwitch"}

\* the widgets created with state = 'disabled': the two sub-option checkboxes
\* of every rune panel (one entry per rune) and two of the rune switches
DisabledAtStart ==
  RuneNames \cup {"toggleAllRunesUpgradedSwitch", "toggleAllRunesPermEquipSwitch"}

\* the lists without Weapons.__post_init__
InitAvailableArgentOnly ==
  [m \in Modules |->
     IF m = "ArgentCellUpgrades"
     THEN <<"healthCapacity", "armorCapacity", "ammoCapacity">> ELSE <<>>]

\* ArgentCellUpgrades.__post_init__ and Weapons.__post_init__: the available
\* lists of a freshly constructed Inventory
InitAvailable ==
  [m \in Modules |->
     CASE m = "ArgentCellUpgrades" -> <<"healthCapacity", "armorCapacity", "ammoCapacity">>
       [] m = "Weapons" -> <<"fists", "pistol">>
       [] OTHER -> <<>>]

\* common.LEVEL_INHERITANCE_MAP: game level -> the level it inherits from
LEVEL_INHERITANCE_MAP ==
  [argent_tower |-> "olympia_surface_1", bfg_division |-> "olympia_surface_2",
   blood_keep |-> "argent_tower", blood_keep_b |-> "emt", blood_keep_c |-> "blood_keep_b",
   emt |-> "lazarus", foundry |-> "resource_operations", intro |-> "base",
   lazarus |-> "bfg_division", olympia_surface_1 |-> "foundry",
   olympia_surface_2 |-> "blood_keep", polar_core |-> "blood_keep_c",
   resource_operations |-> "intro", titan |-> "polar_core"]

\* the game levels
Levels == DOMAIN LEVEL_INHERITANCE_MAP

NoLevelFile == [written |-> FALSE, inherit |-> <<>>, edit |-> <<>>]

NoFile == [written |-> FALSE, num |-> 0, items |-> <<>>]

Init ==
  /\ count = [c \in ArgentNames |-> 0]
  /\ avail = InitAvailable
  /\ upg = [r \in RuneNames |-> FALSE]
  /\ perm = [r \in RuneNames |-> FALSE]
  /\ data = [n \in AllNames |-> <<>>]
  /\ file = NoFile
  /\ levelFiles = [l \in Levels |-> NoLevelFile]
  /\ doomInstallationPath = "None"
  /\ switch = [s \in SwitchNames |-> FALSE]
  /\ enabled = [w \in DisabledAtStart |-> FALSE]
  /\ last = Op("init", "", "", 0, FALSE)
  /\ pre = [count |-> [c \in ArgentNames |-> 0], avail |-> InitAvailable,
            upg |-> [r \in RuneNames |-> FALSE], perm |-> [r \in RuneNames |-> FALSE]]
  /\ prior = [op |-> "", data |-> [n \in AllNames |-> <<>>], file |-> NoFile]
  /\ ret = RetNone
  /\ raised = "none"
  /\ steps = 0

(***************************************************************************)
(* ArgentCellUpgrades.                                                     *)
(***************************************************************************)
Max(a, b) == IF a >= b THEN a ELSE b

Min(a, b) == IF a <= b THEN a ELSE b

ClampUpperOnly(num, smallest, largest) == Min(num, largest)

\* common.clamp
Clamp(num, smallest, largest) == Max(smallest, Min(num, largest))

\* the loop of getCanUpgradeFurther: available perks whose count is > 3
NumMaxedCapacities(av, cnt) == Cardinality({i \in 1..Len(av) : cnt[av[i]] # 0 /\ cnt[av[i]] > 3})

GetCanUpgradeFurtherLoose(av, cnt) == ~(NumMaxedCapacities(av, cnt) > 2)

\* ArgentCellUpgrades.getCanUpgradeFurther
GetCanUpgradeFurther(av, cnt) == ~(NumMaxedCapacities(av, cnt) > 1)

\* setArgentLevel's loop with the downgrade kept out of the returned level
RECURSIVE SetArgentLoopStale(_, _, _, _, _)
SetArgentLoopStale(av, i, category, level, cnt) ==
  IF i > Len(av) THEN [level |-> level, count |-> cnt]
  ELSE IF av[i] = category
       THEN LET lv == IF level > 3 /\ ~GetCanUpgradeFurther(av, cnt)
                      THEN DowngradedLevel ELSE level
            IN  SetArgentLoopStale(av, i + 1, category, level, [cnt EXCEPT ![av[i]] = lv])
       ELSE SetArgentLoopStale(av, i + 1, category, level, cnt)

\* setArgentLevel's loop without the comparison of perk.name with category
RECURSIVE SetArgentLoopEvery(_, _, _, _, _)
SetArgentLoopEvery(av, i, category, level, cnt) ==
  IF i > Len(av) THEN [level |-> level, count |-> cnt]
  ELSE LET lv == IF level > 3 /\ ~GetCanUpgradeFurther(av, cnt)
                 THEN DowngradedLevel ELSE level
       IN  SetArgentLoopEvery(av, i + 1, category, lv, [cnt EXCEPT ![av[i]] = lv])

\* the loop of setArgentLevel from position i on, with the (possibly already
\* downgraded) level; yields the returned level and the new counts
RECURSIVE SetArgentLoop(_, _, _, _, _)
SetArgentLoop(av, i, category, level, cnt) ==
  IF i > Len(av) THEN [level |-> level, count |-> cnt]
  ELSE IF av[i] = category
       THEN LET lv == IF level > 3 /\ ~GetCanUpgradeFurther(av, cnt)
                      THEN DowngradedLevel ELSE level
            IN  SetArgentLoop(av, i + 1, category, lv, [cnt EXCEPT ![av[i]] = lv])
       ELSE SetArgentLoop(av, i + 1, category, level, cnt)

\* ArgentCellUpgrades.setArgentLevel as a function of the state it reads
SetArgentLevelResult(av, cnt, category, level) ==
  SetArgentLoop(av, 1, category, Clamp(level, MinLevel, MaxLevel), cnt)

RequestLevels == (MinLevel - LevelSlack) .. (MaxLevel + LevelSlack)

\* category strings a caller may pass: the three perks, a non-element
\* attribute of the module, and a name the module does not have
ArgentCallNames == ArgentNames \cup {"moduleName", "nope"}

\* a call  argentCellUpgrades.setArgentLevel(category, level)
SetArgentLevel(category, level) ==
  LET r == SetArgentLevelResult(avail["ArgentCellUpgrades"], count, category, level) IN
  /\ count' = r.count
  /\ ret' = RetInt(r.level)
  /\ raised' = "none"
  /\ last' = Op("setArgentLevel", "ArgentCellUpgrades", category, level, FALSE)
  /\ pre' = Snapshot /\ prior' = Prior
  /\ UNCHANGED <<avail, upg, perm, outVars, uiVars>>

(***************************************************************************)
(* InventoryModule and its subclasses: operations on `available`.          *)
(***************************************************************************)
\* the record of a catalog entry
Entry(cat, n) == cat[CHOOSE i \in 1..Len(cat) : cat[i].name = n]

\* addToAvailable without hasattr() and the elementType test of the module
AddToAvailableListAnyModule(m, av, n) ==
  IF n \in AllNames /\ ~InList(n, av) THEN Append(av, n) ELSE av

AddToAvailableListDup(m, av, n) ==
  IF HasAttr(m, n) /\ IsElement(m, n) THEN Append(av, n) ELSE av

\* InventoryModule.addToAvailable: the new `available` list
AddToAvailableList(m, av, n) ==
  IF HasAttr(m, n)
  THEN IF IsElement(m, n) /\ ~InList(n, av) THEN Append(av, n) ELSE av
  ELSE av

\* InventoryModule.addAllToAvailable: the new `available` list.  The loop walks
\* all() in class-body order and appends each element that is not in the list
\* yet; the names of a catalog are distinct, so it appends exactly the elements
\* missing from the list it started with, in class-body order.
AddAllToAvailableList(m, av) ==
  av \o SelectSeq(CatalogNames(m), LAMBDA n : ~InList(n, av))

\* the effect of an operation on the selection state, with its bookkeeping
Effect(o, cnt, av, u, p, r, exc) ==
  /\ count' = cnt /\ avail' = av /\ upg' = u /\ perm' = p
  /\ ret' = r /\ raised' = exc
  /\ last' = o /\ pre' = Snapshot /\ prior' = Prior

\* a call  module.addToAvailable(name)  on a module that does not override it
AddToAvailable(m, n) ==
  /\ m # "WeaponMods"
  /\ Effect(Op("addToAvailable", m, n, 0, FALSE), count,
            [avail EXCEPT ![m] = AddToAvailableList(m, avail[m], n)],
            upg, perm, RetNone, "none")
  /\ UNCHANGED <<outVars, uiVars>>

\* a call  module.addAllToAvailable()
AddAllToAvailable(m) ==
  /\ Effect(Op("addAllToAvailable", m, "", 0, FALSE), count,
            [avail EXCEPT ![m] = AddAllToAvailableList(m, avail[m])],
            upg, perm, RetNone, "none")
  /\ UNCHANGED <<outVars, uiVars>>

\* getattr(mod, "applicableWeapon") fails on every attribute that is no
\* element, except elementType: the class WeaponModPerk inherits the class
\* attribute applicableWeapon = None from InventoryPerk
ModFieldAccessRaises(n) == n \in OtherAttrs("WeaponMods") \ {"elementType"}

\* applicableWeapon of whatever getattr(weaponMods, n) is
ApplicableWeaponOf(n) ==
  IF IsElement("WeaponMods", n) THEN Entry(WeaponModsCatalog, n).applicableWeapon
  ELSE "None"

\* a call  weaponMods.addToAvailable(applicableWeapon, modName)
\* WeaponMods.addToAvailable without the comparison of applicableWeapon
WeaponModsAddListAnyWeapon(av, w, n) ==
  IF ~InList(n, av) THEN Append(av, n) ELSE av

\* WeaponMods.addToAvailable: the new `available` list, for a name whose
\* attribute has an applicableWeapon
WeaponModsAddList(av, w, n) ==
  IF ApplicableWeaponOf(n) = w /\ ~InList(n, av) THEN Append(av, n) ELSE av

WeaponModsAddToAvailable(w, n) ==
  /\ IF ~HasAttr("WeaponMods", n)
     THEN Effect(OpWeaponMod(w, n), count, avail, upg, perm, RetNone, "none")
     ELSE IF ModFieldAccessRaises(n)
     THEN Effect(OpWeaponMod(w, n), count, avail, upg, perm, RetNone, "AttributeError")
     ELSE Effect(OpWeaponMod(w, n), count,
                 [avail EXCEPT !["WeaponMods"] = WeaponModsAddList(avail["WeaponMods"], w, n)],
                 upg, perm, RetNone, "none")
  /\ UNCHANGED <<outVars, uiVars>>

\* a call  runes.setIsUpgraded(runeName, isUpgraded)
SetIsUpgraded(n, f) ==
  /\ IF ~HasAttr("Runes", n)
     THEN Effect(Op("setIsUpgraded", "Runes", n, 0, f), count, avail, upg, perm,
                 RetNone, "AttributeError")
     ELSE Effect(Op("setIsUpgraded", "Runes", n, 0, f), count, avail,
                 IF IsElement("Runes", n) THEN [upg EXCEPT ![n] = f] ELSE upg,
                 perm, RetNone, "none")
  /\ UNCHANGED <<outVars, uiVars>>

\* a call  runes.setIsPermanent(runeName, isPermanent)
SetIsPermanent(n, f) ==
  /\ IF ~HasAttr("Runes", n)
     THEN Effect(Op("setIsPermanent", "Runes", n, 0, f), count, avail, upg, perm,
                 RetNone, "AttributeError")
     ELSE Effect(Op("setIsPermanent", "Runes", n, 0, f), count,
                 IF IsElement("Runes", n)
                 THEN [avail EXCEPT !["Runes"] = AddToAvailableList("Runes", avail["Runes"], n)]
                 ELSE avail,
                 upg,
                 IF IsElement("Runes", n) THEN [perm EXCEPT ![n] = f] ELSE perm,
                 RetNone, "none")
  /\ UNCHANGED <<outVars, uiVars>>

\* the loop of setAllAreUpgraded / setAllArePermEquip assigning every rune
SetAllFlagsEvery(fl, v) == [r \in RuneNames |-> v]

\* the loop of setAllAreUpgraded / setAllArePermEquip: the flag is assigned
\* only on the runes whose flag is falsy (`and not each.<flag>`)
SetAllFlags(fl, v) == [r \in RuneNames |-> IF ~fl[r] THEN v ELSE fl[r]]

\* a call  runes.setAllAreUpgraded(v)
SetAllAreUpgraded(v) ==
  /\ Effect(Op("setAllAreUpgraded", "Runes", "", 0, v), count, avail,
            SetAllFlags(upg, v), perm, RetNone, "none")
  /\ UNCHANGED <<outVars, uiVars>>

\* a call  runes.setAllArePermEquip(v)
SetAllArePermEquip(v) ==
  /\ Effect(Op("setAllArePermEquip", "Runes", "", 0, v), count, avail,
            upg, SetAllFlags(perm, v), RetNone, "none")
  /\ UNCHANGED <<outVars, uiVars>>

\* each.applicableMod == 'isBaseMod'
IsBaseMod(n) == Entry(WeaponModsCatalog, n).applicableMod = "isBaseMod"

\* the loop of the two bulk toggles without the test of applicableMod
ToggleAllModsListAnyMod(av, base, v) ==
  IF v
  THEN av \o SelectSeq(CatalogNames("WeaponMods"), LAMBDA n : ~InList(n, av))
  ELSE <<>>

\* the loop of toggleAllBaseModsAvailable (base = TRUE) and of
\* toggleAllModUpgradesAvailable (base = FALSE): walking the catalog in
\* class-body order, a mod of the kind is appended when it is not available
\* (v) or removed when it is (not v); the names of the catalog are distinct,
\* so the appended mods are those absent at the start, in catalog order, and
\* the removals leave the other mods in their order
ToggleAllModsList(av, base, v) ==
  IF v
  THEN av \o SelectSeq(CatalogNames("WeaponMods"),
                       LAMBDA n : IsBaseMod(n) = base /\ ~InList(n, av))
  ELSE SelectSeq(av, LAMBDA n : IsBaseMod(n) # base)

\* a call  weaponMods.toggleAllBaseModsAvailable(v)
ToggleAllBaseModsAvailable(v) ==
  /\ Effect(Op("toggleAllBaseModsAvailable", "WeaponMods", "", 0, v), count,
            [avail EXCEPT !["WeaponMods"] = ToggleAllModsList(avail["WeaponMods"], TRUE, v)],
            upg, perm, RetNone, "none")
  /\ UNCHANGED <<outVars, uiVars>>

\* a call  weaponMods.toggleAllModUpgradesAvailable(v)
ToggleAllModUpgradesAvailable(v) ==
  /\ Effect(Op("toggleAllModUpgradesAvailable", "WeaponMods", "", 0, v), count,
            [avail EXCEPT !["WeaponMods"] = ToggleAllModsList(avail["WeaponMods"], FALSE, v)],
            upg, perm, RetNone, "none")
  /\ UNCHANGED <<outVars, uiVars>>

\* the three getters share one shape: getattr without a default, then an
\* isinstance test; a hit returns `hit`, a non-element attribute returns None
Getter(o, m, n, hit) ==
  /\ IF ~HasAttr(m, n)
     THEN Effect(Op(o, m, n, 0, FALSE), count, avail, upg, perm, RetNone, "AttributeError")
     ELSE Effect(Op(o, m, n, 0, FALSE), count, avail, upg, perm,
                 IF IsElement(m, n) THEN RetStr(hit) ELSE RetNone, "none")
  /\ UNCHANGED <<outVars, uiVars>>

\* a call  runes.getRunePerkFromName(runeName); the rune object is its name
GetRunePerkFromName(n) == Getter("getRunePerkFromName", "Runes", n, n)

\* a call  weaponMods.getWeaponModPerkFromName(modName)
GetWeaponModPerkFromName(n) == Getter("getWeaponModPerkFromName", "WeaponMods", n, n)

\* WeaponItem.ammoType of a weapon
AmmoTypeOf(n) == Entry(WeaponsCatalog, n).ammoType

\* a call  weapons.getAmmoTypeForWeapon(weaponName)
GetAmmoTypeForWeapon(n) ==
  Getter("getAmmoTypeForWeapon", "Weapons", n,
         IF IsElement("Weapons", n) THEN AmmoTypeOf(n) ELSE "")

(***************************************************************************)
(* Inputs of the library-level specification.                              *)
(***************************************************************************)
\* names that are no element of any module: a non-element dataclass field,
\* an instance attribute, a class attribute and a name no module has
NonElementNames == {"moduleName", "available", "elementType", "nope"}

\* two elements of every catalog
PickedNames(m) == {CatalogNames(m)[1], CatalogNames(m)[Len(CatalogNames(m))]}

\* the names passed to a module's operations: two of its own elements, an
\* element of another module and the non-element names
CallNames(m) ==
  PickedNames(m) \cup NonElementNames
  \cup {IF m = "Weapons" THEN "fragGrenade" ELSE "chainsaw"}

(***************************************************************************)
(* InventoryElement.updateData of the seven element classes.  A data        *)
(* dictionary is the sequence of its (key, value) pairs in insertion order; *)
(* values are the text an f-string writes for them (an int count is its     *)
(* decimal numeral).                                                        *)
(***************************************************************************)
\* str(flag).lower()
BoolStr(b) == IF b THEN "true" ELSE "false"

\* ArgentPerk.updateData without the branch for ammoCapacity
ArgentDataUniform(n, cnt) ==
  << <<"perk", Entry(ArgentCatalog, n).path>>, <<"count", ToString(cnt[n])>>,
     <<"equip", "true">>, <<"remove_after_equip", "true">> >>

\* ArgentPerk.updateData
ArgentData(n, cnt) ==
  LET e == Entry(ArgentCatalog, n) IN
  IF n # "ammoCapacity"
  THEN << <<"perk", e.path>>, <<"count", ToString(cnt[n])>>, <<"equip", "true">>,
          <<"remove_after_equip", "true">> >>
  ELSE << <<"perk", e.path>>, <<"count", ToString(cnt[n])>>, <<"equip", "true">>,
          <<"applyAfterLoadout", "true">>, <<"remove_after_equip", "true">> >>

\* PraetorPerk.updateData
PraetorData(n) ==
  LET e == Entry(PraetorCatalog, n) IN
  IF e.unlockable # "None" /\ e.unlockable # ""
  THEN << <<"perk", e.path>>, <<"unlockable", e.unlockable>>, <<"equip", "true">> >>
  ELSE << <<"perk", e.path>>, <<"equip", "true">> >>

\* RunePerk.updateData without the branch on runePermanentEquip
RuneDataNeverPermanent(n, u, p) ==
  << <<"perk", Entry(RunesCatalog, n).path>>, <<"applyUpgradesForPerk", BoolStr(u[n])>>,
     <<"isRune", "true">> >>

\* RunePerk.updateData
RuneData(n, u, p) ==
  LET e == Entry(RunesCatalog, n) IN
  IF p[n]
  THEN << <<"perk", e.path>>, <<"applyUpgradesForPerk", BoolStr(u[n])>>, <<"equip", "true">> >>
  ELSE << <<"perk", e.path>>, <<"applyUpgradesForPerk", BoolStr(u[n])>>, <<"isRune", "true">> >>

\* WeaponModPerk.updateData
WeaponModData(n) ==
  LET e == Entry(WeaponModsCatalog, n) IN
  IF e.applicableMod = "isBaseMod"
  THEN << <<"perk", e.path>> >>
  ELSE << <<"perk", e.path>>, <<"equip", "true">> >>

\* EquipmentItem.updateData
EquipmentData(n) ==
  LET e == Entry(EquipmentCatalog, n) IN
  IF e.equip
  THEN << <<"item", e.path>>, <<"equip", "true">> >>
  ELSE << <<"item", e.path>> >>

\* WeaponItem.updateData
WeaponData(n) ==
  LET e == Entry(WeaponsCatalog, n) IN
  IF e.equip THEN << <<"item", e.path>>, <<"equip", "true">> >>
  ELSE IF e.equipReserve THEN << <<"item", e.path>>, <<"equip_reserve", "true">> >>
  ELSE << <<"item", e.path>> >>

\* AmmoItem.updateData
AmmoData(n) ==
  LET e == Entry(AmmoCatalog, n) IN
  << <<"item", e.path>>, <<"count", ToString(e.count)>>, <<"applyAfterLoadout", "true">> >>

\* element.updateData(), dispatched on the class of the element, in selection
\* state st
UpdateData(n, st) ==
  CASE IsElement("ArgentCellUpgrades", n)  -> ArgentData(n, st.count)
    [] IsElement("PraetorSuitUpgrades", n) -> PraetorData(n)
    [] IsElement("Equipment", n)           -> EquipmentData(n)
    [] IsElement("Weapons", n)             -> WeaponData(n)
    [] IsElement("WeaponMods", n)          -> WeaponModData(n)
    [] IsElement("Ammo", n)                -> AmmoData(n)
    [] IsElement("Runes", n)               -> RuneData(n, st.upg, st.perm)

\* InventoryModule.updateModuleData: the data of all entries afterwards
UpdateModuleData(m, d, st) ==
  [n \in AllNames |-> IF InList(n, st.avail[m]) THEN UpdateData(n, st) ELSE d[n]]

(***************************************************************************)
(* Inventory.generateDeclFile.  The written file is its num and the         *)
(* sequence of its item blocks, each with the index written in item[..]     *)
(* and the (key, value) lines of its body.                                  *)
(***************************************************************************)
\* common.BASE_ITEM
BASE_ITEM == << <<"researchGroups", "\"main\"">>, <<"equip", "true">> >>

\* the first loop: invItemsCount after the modules from k on were counted
RECURSIVE CountItems(_, _, _)
CountItems(k, n, st) ==
  IF k > Len(ModuleOrder) THEN n
  ELSE CountItems(k + 1, n + Len(st.avail[ModuleOrder[k]]), st)

\* the same loop with invItemsCount started at 0
InvItemsCountNoBase(st) == CountItems(1, 0, st)

\* invItemsCount: 1 for the base item plus every module's len(available)
InvItemsCount(st) == CountItems(1, 1, st)

\* the item blocks written for one module with the index restarting at 1
ModuleItemsRestart(m, itemIndex, d, st) ==
  [i \in 1..Len(st.avail[m]) |-> [index |-> i, body |-> d[st.avail[m][i]]]]

\* the item blocks written for one module, the first with index itemIndex
ModuleItems(m, itemIndex, d, st) ==
  [i \in 1..Len(st.avail[m]) |->
     [index |-> itemIndex + (i - 1), body |-> d[st.avail[m][i]]]]

\* the second loop writing a module's items before it refreshes their data
RECURSIVE WriteModulesStale(_, _, _, _, _)
WriteModulesStale(k, itemIndex, d, items, st) ==
  IF k > Len(ModuleOrder) THEN [items |-> items, data |-> d]
  ELSE LET m == ModuleOrder[k]
       IN  WriteModulesStale(k + 1, itemIndex + Len(st.avail[m]),
                             UpdateModuleData(m, d, st),
                             items \o ModuleItems(m, itemIndex, d, st), st)

\* the second loop from module k on: the running itemIndex, the entries' data
\* and the item blocks written so far
RECURSIVE WriteModules(_, _, _, _, _)
WriteModules(k, itemIndex, d, items, st) ==
  IF k > Len(ModuleOrder) THEN [items |-> items, data |-> d]
  ELSE LET m  == ModuleOrder[k]
           d2 == UpdateModuleData(m, d, st)
       IN  WriteModules(k + 1, itemIndex + Len(st.avail[m]), d2,
                        items \o ModuleItems(m, itemIndex, d2, st), st)

\* generateDeclFile with the file opened for appending: the text written
\* before stays in front of the new text
GenerateResultAppend(d, st) ==
  LET w == WriteModules(1, 1, d, << [index |-> 0, body |-> BASE_ITEM] >>, st)
  IN  [file |-> [written |-> TRUE, num |-> InvItemsCount(st),
                 items |-> file.items \o w.items],
       data |-> w.data]

\* the file and the entries' data after generateDeclFile (the file is opened
\* with 'w+', which truncates it)
GenerateResult(d, st) ==
  LET w == WriteModules(1, 1, d, << [index |-> 0, body |-> BASE_ITEM] >>, st)
  IN  [file |-> [written |-> TRUE, num |-> InvItemsCount(st), items |-> w.items],
       data |-> w.data]

\* generateDeclFile emptying every available list once it is written
GenerateDeclFileConsuming ==
  LET g == GenerateResult(data, Snapshot) IN
  /\ data' = g.data
  /\ file' = g.file
  /\ UNCHANGED <<levelFiles, doomInstallationPath>>
  /\ Effect(Op("generateDeclFile", "", "", 0, FALSE), count, [m \in Modules |-> <<>>],
            upg, perm, RetNone, "none")
  /\ UNCHANGED uiVars

\* a call  inventory.generateDeclFile(path)  that the file system lets succeed
GenerateDeclFile ==
  LET g == GenerateResult(data, Snapshot) IN
  /\ data' = g.data
  /\ file' = g.file
  /\ UNCHANGED <<levelFiles, doomInstallationPath>>
  /\ Effect(Op("generateDeclFile", "", "", 0, FALSE), count, avail, upg, perm,
            RetNone, "none")
  /\ UNCHANGED uiVars

(***************************************************************************)
(* The App's callbacks (src/src/app.py).  A click on a switch flips the     *)
(* switch and then runs its command; an exception raised in a callback is   *)
(* reported by Tk and the main loop goes on with what was changed so far.   *)
(***************************************************************************)
\* the keys of the dropdown entries: app.py reads the tables as
\* ARGENT_HEALTH_LEVELS, ARGENT_ARMOR_LEVELS and ARGENT_AMMO_LEVELS, common.py
\* holds them as the 'Levels' of ARGENT_DROPDOWN_DATA, each with the keys 0..4
DropdownLevels == MinLevel..MaxLevel

\* App.argentCallback(category, selection), selection being the dropdown
\* entry with key selectionKey
ArgentCallback(category, selectionKey) ==
  LET r == SetArgentLevelResult(avail["ArgentCellUpgrades"], count, category, selectionKey) IN
  /\ Effect(Op("argentCallback", "ArgentCellUpgrades", category, selectionKey, FALSE),
            r.count, avail, upg, perm, RetInt(r.level), "none")
  /\ UNCHANGED <<outVars, uiVars>>

\* allArgentCategories, in the order toggleAllArgentUpgrades walks them
AllArgentCategories == <<"healthCapacity", "armorCapacity", "ammoCapacity">>

\* the loop of toggleAllArgentUpgrades from category i on
RECURSIVE ArgentAllLoop(_, _, _, _)
ArgentAllLoop(i, key, av, cnt) ==
  IF i > Len(AllArgentCategories) THEN cnt
  ELSE ArgentAllLoop(i + 1, key, av,
                     SetArgentLevelResult(av, cnt, AllArgentCategories[i], key).count)

\* App.toggleAllArgentUpgrades, run by a click on the 'All Upgrades' switch
ToggleAllArgentUpgrades ==
  LET on == ~switch["toggleAllArgentSwitch"] IN
  /\ switch' = [switch EXCEPT !["toggleAllArgentSwitch"] = on]
  /\ Effect(Op("toggleAllArgentUpgrades", "ArgentCellUpgrades", "", 0, on),
            ArgentAllLoop(1, IF on THEN MaxLevel ELSE MinLevel,
                          avail["ArgentCellUpgrades"], count),
            avail, upg, perm, RetNone, "none")
  /\ UNCHANGED <<outVars, enabled>>

\* praetorCallback / equipmentCallback / runeAvailableCallback: remove the
\* entry named n from module m's available when it is there (and clear the
\* module's "all" switch sw), else addToAvailable(n)
ToggleEntry(o, m, sw, n) ==
  IF InList(n, avail[m])
  THEN /\ Effect(Op(o, m, n, 0, FALSE), count,
                 [avail EXCEPT ![m] = RemoveFirst(avail[m], n)],
                 upg, perm, RetNone, "none")
       /\ switch' = [switch EXCEPT ![sw] = FALSE]
  ELSE /\ Effect(Op(o, m, n, 0, FALSE), count,
                 [avail EXCEPT ![m] = AddToAvailableList(m, avail[m], n)],
                 upg, perm, RetNone, "none")
       /\ UNCHANGED switch

\* toggleAllPraetorUpgrades / toggleAllEquipment / toggleAllWeapons:
\* addAllToAvailable() when the switch is now on, available.clear() when off
ToggleAll(o, m, sw) ==
  LET on == ~switch[sw] IN
  /\ switch' = [switch EXCEPT ![sw] = on]
  /\ Effect(Op(o, m, "", 0, on), count,
            [avail EXCEPT ![m] = IF on THEN AddAllToAvailableList(m, avail[m]) ELSE <<>>],
            upg, perm, RetNone, "none")

\* App.praetorCallback(perkName)
PraetorCallback(n) ==
  /\ ToggleEntry("praetorCallback", "PraetorSuitUpgrades", "toggleAllPraetorSwitch", n)
  /\ UNCHANGED <<outVars, enabled>>

\* App.toggleAllPraetorUpgrades
ToggleAllPraetorUpgrades ==
  /\ ToggleAll("toggleAllPraetorUpgrades", "PraetorSuitUpgrades", "toggleAllPraetorSwitch")
  /\ UNCHANGED <<outVars, enabled>>

\* App.equipmentCallback(equipmentItemName)
EquipmentCallback(n) ==
  /\ ToggleEntry("equipmentCallback", "Equipment", "toggleAllEquipmentSwitch", n)
  /\ UNCHANGED <<outVars, enabled>>

\* App.toggleAllEquipment
ToggleAllEquipment ==
  /\ ToggleAll("toggleAllEquipment", "Equipment", "toggleAllEquipmentSwitch")
  /\ UNCHANGED <<outVars, enabled>>

\* App.weaponsCallback(weaponItemName): the weapon is looked up in
\* weapons.available, but removed from and added to equipment; list.remove of
\* an item the list does not hold raises ValueError
WeaponsCallback(n) ==
  /\ IF InList(n, avail["Weapons"])
     THEN IF InList(n, avail["Equipment"])
          THEN /\ Effect(Op("weaponsCallback", "Weapons", n, 0, FALSE), count,
                         [avail EXCEPT !["Equipment"] = RemoveFirst(avail["Equipment"], n)],
                         upg, perm, RetNone, "none")
               /\ switch' = [switch EXCEPT !["toggleAllEquipmentSwitch"] = FALSE]
          ELSE /\ Effect(Op("weaponsCallback", "Weapons", n, 0, FALSE), count, avail,
                         upg, perm, RetNone, "ValueError")
               /\ UNCHANGED switch
     ELSE /\ Effect(Op("weaponsCallback", "Weapons", n, 0, FALSE), count,
                    [avail EXCEPT !["Equipment"] =
                       AddToAvailableList("Equipment", avail["Equipment"], n)],
                    upg, perm, RetNone, "none")
          /\ UNCHANGED switch
  /\ UNCHANGED <<outVars, enabled>>

\* App.toggleAllWeapons
ToggleAllWeapons ==
  /\ ToggleAll("toggleAllWeapons", "Weapons", "toggleAllWeaponsSwitch")
  /\ UNCHANGED <<outVars, enabled>>

\* the keys of RUNE_PANEL_DATA: the first line of runeAvailableCallback looks
\* the name up there and raises KeyError for any other name
RunePanelNames ==
  {"vacuum", "dazedAndConfused", "ammoBoost", "equipmentPower", "seekAndDestroy",
   "savagery", "inFlightMobility", "armoredOffensive", "bloodFueled",
   "intimacyIsBest", "richGetRicher", "savingThrow"}

\* App.runeAvailableCallback(runePerkName): also disables / enables the two
\* sub-option checkboxes of the rune's panel
RuneAvailableCallback(n) ==
  IF n \notin RunePanelNames
  THEN /\ Effect(Op("runeAvailableCallback", "Runes", n, 0, FALSE), count, avail,
                 upg, perm, RetNone, "KeyError")
       /\ UNCHANGED <<outVars, uiVars>>
  ELSE /\ ToggleEntry("runeAvailableCallback", "Runes", "toggleAllRunesAvailableSwitch", n)
       /\ enabled' = [enabled EXCEPT ![n] = ~InList(n, avail["Runes"])]
       /\ UNCHANGED outVars

(***************************************************************************)
(* App.generateMod and what it calls.                                       *)
(***************************************************************************)
\* levelInheritanceMap, the local dictionary of makeLevelInheritanceDecls
\* ("TODO: add the rest!"), as its keys in insertion order and its values
levelInheritanceKeys == <<"argent_tower", "bfg_division">>

levelInheritanceMap ==
  [argent_tower |-> "olympia_surface_1", bfg_division |-> "olympia_surface_2"]

\* the text makeLevelInheritanceDecls writes into one file: the inherit line
\* f'"devinvloadout/sp/{value}";' and an edit block with nothing in it
LevelFile(value) ==
  [written |-> TRUE, inherit |-> <<"devinvloadout/sp/", value>>, edit |-> <<>>]

\* App.makeLevelInheritanceDecls: the level files once the first k files of
\* its loop are written
MakeLevelInheritanceDecls(k, lf) ==
  [l \in Levels |->
     IF \E i \in 1..k : levelInheritanceKeys[i] = l
     THEN LevelFile(levelInheritanceMap[l]) ELSE lf[l]]

\* App.promptUserForPath, the dialog returning the string sel ('' on cancel)
PromptUserForPath(sel) ==
  /\ doomInstallationPath' = (IF sel # "" THEN sel ELSE doomInstallationPath)
  /\ Effect(Op("promptUserForPath", "", sel, 0, FALSE), count, avail, upg, perm,
            RetNone, "none")
  /\ UNCHANGED <<data, file, levelFiles, uiVars>>

\* the places where a file-system call of generateMod can raise OSError:
\* os.makedirs, the open() of generateDeclFile, the open() of the first and
\* of the second level file, shutil.make_archive and the calls after it;
\* "none" when no call fails
GenerateStages == {"makedirs", "declOpen", "levelOpen1", "levelOpen2", "archive", "none"}

\* App.generateMod, the file system failing at stage (or not at all)
GenerateMod(stage) ==
  LET g  == GenerateResult(data, Snapshot)
      k  == CASE stage = "levelOpen1" -> 0
              [] stage = "levelOpen2" -> 1
              [] OTHER -> Len(levelInheritanceKeys)
      ex == IF stage = "none" THEN "none" ELSE "OSError"
  IN
  IF doomInstallationPath = "None"
  THEN /\ stage = "none"
       /\ Effect(Op("generateMod", "", "noPath", 0, FALSE), count, avail, upg, perm,
                 RetNone, "none")
       /\ UNCHANGED <<outVars, uiVars>>
  ELSE IF stage \in {"makedirs", "declOpen"}
  THEN /\ Effect(Op("generateMod", "", stage, 0, FALSE), count, avail, upg, perm,
                 RetNone, ex)
       /\ UNCHANGED <<outVars, uiVars>>
  ELSE /\ data' = g.data
       /\ file' = g.file
       /\ levelFiles' = MakeLevelInheritanceDecls(k, levelFiles)
       /\ Effect(Op("generateMod", "", stage, 0, FALSE), count, avail, upg, perm,
                 RetNone, ex)
       /\ UNCHANGED <<doomInstallationPath, uiVars>>

\* what the directory dialog returns: '' on cancel, else the chosen directory
DialogSelections == {"", "C:/DOOM"}

\* the rune name RunePanel.__init__ binds the two sub-option callbacks of a
\* panel to: partial(parentApp.runeUpgradedCallback, 'vacuum') and
\* partial(parentApp.runePermEquipCallback, 'vacuum'), whatever the panel
BoundRuneName(panel) == "vacuum"

\* a click on the 'Upgraded' checkbox of a rune's panel (possible only while
\* the checkbox is enabled), which runs App.runeUpgradedCallback with the
\* bound name; last.mod records the panel, last.name the bound name
RuneUpgradedCheckboxClick(panel) ==
  LET n == BoundRuneName(panel) IN
  /\ enabled[panel]
  /\ Effect(Op("runeUpgradedCallback", panel, n, 0, ~upg[n]), count, avail,
            [upg EXCEPT ![n] = ~upg[n]], perm, RetNone, "none")
  /\ switch' = (IF upg[n]
                THEN [switch EXCEPT !["toggleAllRunesUpgradedSwitch"] = FALSE]
                ELSE switch)
  /\ UNCHANGED <<outVars, enabled>>

\* a click on the 'Permanently Equipped' checkbox of a rune's panel, which
\* runs App.runePermEquipCallback with the bound name
RunePermEquipCheckboxClick(panel) ==
  LET n == BoundRuneName(panel) IN
  /\ enabled[panel]
  /\ Effect(Op("runePermEquipCallback", panel, n, 0, ~perm[n]), count, avail,
            upg, [perm EXCEPT ![n] = ~perm[n]], RetNone, "none")
  /\ switch' = (IF perm[n]
                THEN [switch EXCEPT !["toggleAllRunesPermEquipSwitch"] = FALSE]
                ELSE switch)
  /\ UNCHANGED <<outVars, enabled>>

\* App.toggleAllRunesAvailable: switched on, every rune is added and every
\* sub-option checkbox and the two other rune switches are enabled; switched
\* off, the list is cleared, setAllAreUpgraded(False) and
\* setAllArePermEquip(False) run, and those widgets are deselected and disabled
ToggleAllRunesAvailable ==
  LET on == ~switch["toggleAllRunesAvailableSwitch"] IN
  /\ Effect(Op("toggleAllRunesAvailable", "Runes", "", 0, on), count,
            [avail EXCEPT !["Runes"] = IF on THEN AddAllToAvailableList("Runes", avail["Runes"])
                                           ELSE <<>>],
            IF on THEN upg ELSE SetAllFlags(upg, FALSE),
            IF on THEN perm ELSE SetAllFlags(perm, FALSE),
            RetNone, "none")
  /\ switch' = [sw \in SwitchNames |->
                 IF sw = "toggleAllRunesAvailableSwitch" THEN on
                 ELSE IF sw \in {"toggleAllRunesUpgradedSwitch",
                                  "toggleAllRunesPermEquipSwitch"} /\ ~on THEN FALSE
                 ELSE switch[sw]]
  /\ enabled' = [w \in DOMAIN enabled |-> on]
  /\ UNCHANGED outVars

\* App.toggleAllRunesUpgraded, run by a click on its switch (possible only
\* while the switch is enabled)
ToggleAllRunesUpgraded ==
  LET on == ~switch["toggleAllRunesUpgradedSwitch"] IN
  /\ enabled["toggleAllRunesUpgradedSwitch"]
  /\ Effect(Op("toggleAllRunesUpgraded", "Runes", "", 0, on), count, avail,
            SetAllFlags(upg, on), perm, RetNone, "none")
  /\ switch' = [switch EXCEPT !["toggleAllRunesUpgradedSwitch"] = on]
  /\ UNCHANGED <<outVars, enabled>>

\* App.toggleAllRunesPermEquip, run by a click on its switch
ToggleAllRunesPermEquip ==
  LET on == ~switch["toggleAllRunesPermEquipSwitch"] IN
  /\ enabled["toggleAllRunesPermEquipSwitch"]
  /\ Effect(Op("toggleAllRunesPermEquip", "Runes", "", 0, on), count, avail,
            upg, SetAllFlags(perm, on), RetNone, "none")
  /\ switch' = [switch EXCEPT !["toggleAllRunesPermEquipSwitch"] = on]
  /\ UNCHANGED <<outVars, enabled>>

\* the names the nine weapon checkboxes are bound to (fists and pistol have
\* no checkbox)
WeaponsCheckboxes ==
  {"chainsaw", "combatShotgun", "heavyAssaultRifle", "plasmaRifle", "rocketLauncher",
   "superShotgun", "gaussCannon", "chaingun", "bfg9000"}

\* the checkboxes the application-level specification clicks: of the Praetor
\* perks one without and one with an unlockable, of the equipment one that is
\* equipped and one that is not, every weapon, the first and the last rune
PraetorPicks == {"hazardProtection", "itemAwareness"}

EquipmentPicks == {"fragGrenade", "siphonGrenade"}

RunePicks == {"vacuum", "savingThrow"}

\* the names a toggle callback is called with: the picked checkboxes and a
\* name that no catalog has
ToggleNames(picks) == picks \cup {"nope"}

(***************************************************************************)
(* Specifications.                                                         *)
(***************************************************************************)
NextArgent ==
  /\ \E category \in ArgentCallNames, level \in RequestLevels :
       SetArgentLevel(category, level)
  /\ UNCHANGED steps

\* every sequence of setArgentLevel calls on a fresh inventory
SpecArgent == Init /\ [][NextArgent]_vars

LibTick == steps < MaxCalls /\ steps' = steps + 1

NextLib ==
  \/ LibTick /\ \E m \in Modules : \E n \in CallNames(m) : AddToAvailable(m, n)
  \/ LibTick /\ \E m \in Modules : AddAllToAvailable(m)
  \/ LibTick /\ \E w \in {"pistol", "combatShotgun"}, n \in CallNames("WeaponMods") :
                   WeaponModsAddToAvailable(w, n)
  \/ LibTick /\ \E n \in CallNames("Runes"), f \in BOOLEAN : SetIsUpgraded(n, f)
  \/ LibTick /\ \E n \in CallNames("Runes"), f \in BOOLEAN : SetIsPermanent(n, f)
  \/ LibTick /\ \E n \in CallNames("Runes") : GetRunePerkFromName(n)
  \/ LibTick /\ \E n \in CallNames("WeaponMods") : GetWeaponModPerkFromName(n)
  \/ LibTick /\ \E n \in CallNames("Weapons") : GetAmmoTypeForWeapon(n)
  \/ LibTick /\ \E category \in {"ammoCapacity", "moduleName", "nope"}, level \in {-1, 4} :
                   SetArgentLevel(category, level)
  \/ LibTick /\ GenerateDeclFile
  \/ LibTick /\ \E v \in BOOLEAN : SetAllAreUpgraded(v)
  \/ LibTick /\ \E v \in BOOLEAN : SetAllArePermEquip(v)
  \/ LibTick /\ \E v \in BOOLEAN : ToggleAllBaseModsAvailable(v)
  \/ LibTick /\ \E v \in BOOLEAN : ToggleAllModUpgradesAvailable(v)

\* up to MaxCalls calls of the modules' operations on a fresh inventory
SpecLib == Init /\ [][NextLib]_vars

AppTick == steps < MaxSteps /\ steps' = steps + 1

NextApp ==
  \/ AppTick /\ \E c \in ArgentNames, k \in DropdownLevels : ArgentCallback(c, k)
  \/ AppTick /\ ToggleAllArgentUpgrades
  \/ AppTick /\ \E n \in ToggleNames(PraetorPicks) : PraetorCallback(n)
  \/ AppTick /\ ToggleAllPraetorUpgrades
  \/ AppTick /\ \E n \in ToggleNames(EquipmentPicks) : EquipmentCallback(n)
  \/ AppTick /\ ToggleAllEquipment
  \/ AppTick /\ \E n \in WeaponsCheckboxes : WeaponsCallback(n)
  \/ AppTick /\ ToggleAllWeapons
  \/ AppTick /\ \E n \in ToggleNames(RunePicks) : RuneAvailableCallback(n)
  \/ AppTick /\ \E panel \in RunePicks : RuneUpgradedCheckboxClick(panel)
  \/ AppTick /\ \E panel \in RunePicks : RunePermEquipCheckboxClick(panel)
  \/ AppTick /\ GenerateDeclFile
  \/ AppTick /\ \E sel \in DialogSelections : PromptUserForPath(sel)
  \/ AppTick /\ \E stage \in GenerateStages : GenerateMod(stage)
  \/ AppTick /\ ToggleAllRunesAvailable
  \/ AppTick /\ ToggleAllRunesUpgraded
  \/ AppTick /\ ToggleAllRunesPermEquip

\* up to MaxSteps user operations on a freshly started App, the generation of
\* the declaration file being one of them
SpecApp == Init /\ [][NextApp]_vars

(***************************************************************************)
(* Claims about ArgentCellUpgrades.setArgentLevel (SpecArgent).            *)
(***************************************************************************)
\* the categories that hold the maximum level in a count assignment
Maxed(cnt) == {c \in ArgentNames : cnt[c] = MaxLevel}

\* the state was produced by setArgentLevel called with one of the three perks
ArgentCallOnPerk == last.op = "setArgentLevel" /\ last.name \in ArgentNames

\* C1 (as stated): in no reachable state do two of the three categories
\* healthCapacity, armorCapacity, ammoCapacity hold level 4 at the same time.
C1_AtMostOneMaxed == Cardinality(Maxed(count)) <= 1

\* C1 (amended): in no reachable state do all three categories hold level 4
\* at the same time; at most two of them do.
C1_AtMostTwoMaxed == Cardinality(Maxed(count)) <= 2

\* two categories are at level 4 and a call asking level 4 or more for the
\* third one has just been refused
C1_Witness ==
  /\ ArgentCallOnPerk /\ last.level >= MaxLevel
  /\ Maxed(pre.count) = ArgentNames \ {last.name}
  /\ Maxed(count) = ArgentNames \ {last.name}

\* C2 (as stated): a call requesting level 4 or more for a category while a
\* different category is at level 4 sets that category to 3 and returns 3.
C2_DowngradedWhenAnotherMaxed ==
  (/\ ArgentCallOnPerk /\ last.level >= MaxLevel
   /\ \E d \in ArgentNames \ {last.name} : pre.count[d] = MaxLevel)
  => (count[last.name] = 3 /\ ret = RetInt(3))

\* C2 (amended): a call requesting level 4 or more for a category is
\* downgraded exactly when two categories are at level 4 when it is made: then
\* it sets the requested category to 3 and returns 3, a value different from
\* the requested one; otherwise it sets the category to 4 and returns 4.
C2_DowngradedWhenTwoMaxed ==
  (ArgentCallOnPerk /\ last.level >= MaxLevel)
  => IF Cardinality(Maxed(pre.count)) >= 2
     THEN count[last.name] = 3 /\ ret = RetInt(3) /\ ret.int # last.level
     ELSE count[last.name] = 4 /\ ret = RetInt(4)

\* a request for level 4 made with the two other categories at 4 came back as 3
C2_Witness ==
  /\ ArgentCallOnPerk /\ last.level = MaxLevel
  /\ \A d \in ArgentNames \ {last.name} : pre.count[d] = MaxLevel
  /\ pre.count[last.name] = 1
  /\ count[last.name] = 3 /\ ret = RetInt(3)

\* C3: after a call naming one of the three categories, the count of that
\* category equals the returned value.
C3_ReturnsAppliedLevel ==
  ArgentCallOnPerk => (ret.kind = "int" /\ ret.int = count[last.name])

\* a call whose applied value is neither the requested nor the clamped one
C3_Witness ==
  /\ ArgentCallOnPerk /\ last.level > MaxLevel
  /\ ret.int = DowngradedLevel /\ count[last.name] = DowngradedLevel
  /\ pre.count[last.name] # DowngradedLevel

\* C4: requests below 0 are applied as 0 and requests above 4 as a request for
\* 4 (subject to the upgrade limit); every count stays in 0..4, the returned
\* level is in 0..4 and no call raises.
C4_ClampedSilently ==
  /\ \A c \in ArgentNames : count[c] \in MinLevel..MaxLevel
  /\ last.op = "setArgentLevel" =>
       /\ raised = "none"
       /\ ret.kind = "int" /\ ret.int \in MinLevel..MaxLevel
       /\ (last.name \in ArgentNames /\ last.level < MinLevel) =>
             (count[last.name] = MinLevel /\ ret.int = MinLevel)
       /\ (last.name \in ArgentNames /\ last.level > MaxLevel) =>
             count[last.name] = (IF Cardinality(Maxed(pre.count)) >= 2 THEN 3 ELSE MaxLevel)
       /\ (last.name \notin ArgentNames) =>
             ret.int = (IF last.level < MinLevel THEN MinLevel
                        ELSE IF last.level > MaxLevel THEN MaxLevel ELSE last.level)

\* a negative request reset a raised category to 0, and a request above 4 was
\* applied as 4
C4_Witness ==
  /\ ArgentCallOnPerk
  /\ \/ last.level < MinLevel /\ pre.count[last.name] > 0 /\ count[last.name] = 0
     \/ last.level > MaxLevel /\ pre.count[last.name] = 0 /\ count[last.name] = MaxLevel

(***************************************************************************)
(* Claims about the modules' operations that take a name (SpecLib).        *)
(***************************************************************************)
\* the operations that take an entry name
NameOps ==
  {"addToAvailable", "WeaponMods.addToAvailable", "setIsUpgraded", "setIsPermanent",
   "getRunePerkFromName", "getAmmoTypeForWeapon", "getWeaponModPerkFromName",
   "setArgentLevel"}

\* the selection state is what it was when the last operation began
SelectionUnchanged ==
  count = pre.count /\ avail = pre.avail /\ upg = pre.upg /\ perm = pre.perm

\* C9: an operation that takes an entry name, called with a name that is no
\* entry of the module's catalog, raises nothing and leaves every available
\* list and every entry field unchanged.
C9_TotalOnUnknownNames ==
  (last.op \in NameOps /\ ~IsElement(last.mod, last.name))
  => (raised = "none" /\ SelectionUnchanged)

\* C10: addToAvailable(name) appends the entry to the end of available when
\* name is an element of the module's catalog that is not available yet;
\* otherwise (absent, already available, not an element of this module) the
\* list is left as it was.  No other list changes and nothing is raised.
C10_AddToAvailable ==
  last.op = "addToAvailable" =>
    /\ avail[last.mod] =
         IF last.name \in Range(CatalogNames(last.mod))
            /\ last.name \notin Range(pre.avail[last.mod])
         THEN pre.avail[last.mod] \o <<last.name>>
         ELSE pre.avail[last.mod]
    /\ \A m \in Modules \ {last.mod} : avail[m] = pre.avail[m]
    /\ raised = "none"

\* an entry was appended behind the entries already available
C10_Witness ==
  /\ last.op = "addToAvailable"
  /\ Len(pre.avail[last.mod]) >= 2
  /\ last.name \notin Range(pre.avail[last.mod])
  /\ avail[last.mod] = pre.avail[last.mod] \o <<last.name>>

(***************************************************************************)
(* Claims about Inventory.generateDeclFile.                                *)
(***************************************************************************)
Generated == last.op = "generateDeclFile"

\* the sum of len(module.available) over the seven modules
SumAvailable ==
  Len(avail["ArgentCellUpgrades"]) + Len(avail["PraetorSuitUpgrades"])
  + Len(avail["Equipment"]) + Len(avail["Weapons"]) + Len(avail["WeaponMods"])
  + Len(avail["Ammo"]) + Len(avail["Runes"])

\* C5: the num written by generateDeclFile is 1 + the sum of len(available)
\* over all modules, and the item indices written are exactly 0..num-1, each
\* once, with no gaps or repeats.
C5_NumAndIndices ==
  Generated =>
    /\ file.num = 1 + SumAvailable
    /\ {file.items[i].index : i \in DOMAIN file.items} = 0..(file.num - 1)
    /\ \A i, j \in DOMAIN file.items :
         file.items[i].index = file.items[j].index => i = j

\* a file generated after all weapons and a Praetor perk were made available
C5_Witness ==
  /\ Generated
  /\ Len(avail["Weapons"]) > 2
  /\ Len(avail["PraetorSuitUpgrades"]) > 0
  /\ file.num > 1 + Len(InitAvailable["ArgentCellUpgrades"]) + Len(avail["Weapons"])

\* the registry order the claim names
RegistryOrder ==
  <<"ArgentCellUpgrades", "PraetorSuitUpgrades", "Equipment", "Weapons",
    "WeaponMods", "Ammo", "Runes">>

\* the sum of len(available) of the modules before the k-th
RECURSIVE LenBefore(_)
LenBefore(k) ==
  IF k = 1 THEN 0 ELSE LenBefore(k - 1) + Len(avail[RegistryOrder[k - 1]])

\* the path of the entry named n
PathOf(m, n) ==
  CASE m = "ArgentCellUpgrades"  -> Entry(ArgentCatalog, n).path
    [] m = "PraetorSuitUpgrades" -> Entry(PraetorCatalog, n).path
    [] m = "Equipment"           -> Entry(EquipmentCatalog, n).path
    [] m = "Weapons"             -> Entry(WeaponsCatalog, n).path
    [] m = "WeaponMods"          -> Entry(WeaponModsCatalog, n).path
    [] m = "Ammo"                -> Entry(AmmoCatalog, n).path
    [] m = "Runes"               -> Entry(RunesCatalog, n).path

\* C6: item[0] of the generated file is the fixed base entry, and the entry at
\* position p of the available list of the k-th module of the registry order
\* is written as the item with index 1 + (len(available) of the modules
\* before) + p, the items standing in the file in the order of their indices.
C6_BaseAndRunningIndex ==
  Generated =>
    /\ file.items[1] =
         [index |-> 0,
          body |-> << <<"researchGroups", "\"main\"">>, <<"equip", "true">> >>]
    /\ \A k \in DOMAIN RegistryOrder :
         \A p \in 0..(Len(avail[RegistryOrder[k]]) - 1) :
           LET idx == 1 + LenBefore(k) + p
               it  == file.items[idx + 1]
           IN  /\ idx + 1 \in DOMAIN file.items
               /\ it.index = idx
               /\ it.body[1][2] = PathOf(RegistryOrder[k], avail[RegistryOrder[k]][p + 1])
               /\ it.body = data[avail[RegistryOrder[k]][p + 1]]

\* a file generated with entries in a module after Weapons, so that the
\* running index has crossed at least two module boundaries with entries on
\* both sides
C6_Witness ==
  /\ Generated
  /\ \E k \in 5..7 : Len(avail[RegistryOrder[k]]) > 1

(***************************************************************************)
(* Claims about the coupling of weapons and ammo.                          *)
(***************************************************************************)
\* the names of the Ammo module's entries
AmmoNames == Range(SeqNames(AmmoCatalog))

\* C7: in every reachable state each available weapon with an ammo type has
\* its ammo entry in the Ammo module's available.
C7_AmmoAvailableForWeapons ==
  \A w \in Range(avail["Weapons"]) :
    AmmoTypeOf(w) \in AmmoNames => InList(AmmoTypeOf(w), avail["Ammo"])

\* C8: a click that removes an available weapon takes it out of the Weapons
\* module's available, and afterwards the weapon's ammo entry is available
\* exactly when another weapon that is still available uses the same ammo.
C8_AmmoFollowsRemoval ==
  (last.op = "weaponsCallback" /\ InList(last.name, pre.avail["Weapons"])) =>
    /\ ~InList(last.name, avail["Weapons"])
    /\ AmmoTypeOf(last.name) \in AmmoNames =>
         (InList(AmmoTypeOf(last.name), avail["Ammo"])
            <=> \E w \in Range(avail["Weapons"]) :
                  AmmoTypeOf(w) = AmmoTypeOf(last.name))

(***************************************************************************)
(* Claims about the toggle callbacks of the App.                           *)
(***************************************************************************)
ToggleOps == {"praetorCallback", "equipmentCallback", "runeAvailableCallback"}

\* every module but m has the available list it had before the call
OthersKept(m) == \A m2 \in Modules \ {m} : avail[m2] = pre.avail[m2]

\* the call removed exactly the entry named n from module m's available and
\* kept the other entries in their order
RemovedExactly(m, n) ==
  /\ raised = "none"
  /\ avail[m] = SelectSeq(pre.avail[m], LAMBDA x : x # n)
  /\ Len(avail[m]) = Len(pre.avail[m]) - 1
  /\ OthersKept(m)

C12_WeaponToggleOnWeaponsOnly ==
  last.op = "weaponsCallback" =>
    /\ raised = "none"
    /\ avail["Equipment"] = pre.avail["Equipment"]
    /\ avail["Weapons"] =
         (IF InList(last.name, pre.avail["Weapons"])
          THEN SelectSeq(pre.avail["Weapons"], LAMBDA x : x # last.name)
          ELSE Append(pre.avail["Weapons"], last.name))

(***************************************************************************)
(* Claims about the rendered data of the entries.                          *)
(***************************************************************************)
\* the keys of a rendered mapping, and whether it has been rendered at all
Keys(d) == {d[i][1] : i \in DOMAIN d}

Rendered(n) == data[n] # <<>>

\* the key set the claim gives for the variant of entry n
VariantKeys(n) ==
  CASE n \in {"healthCapacity", "armorCapacity"} ->
         {"perk", "count", "equip", "remove_after_equip"}
    [] n = "ammoCapacity" ->
         {"perk", "count", "equip", "remove_after_equip", "applyAfterLoadout"}
    [] IsElement("PraetorSuitUpgrades", n) ->
         IF Entry(PraetorCatalog, n).unlockable = "None"
         THEN {"perk", "equip"} ELSE {"perk", "equip", "unlockable"}
    [] IsElement("WeaponMods", n) ->
         IF Entry(WeaponModsCatalog, n).applicableMod = "isBaseMod"
         THEN {"perk"} ELSE {"perk", "equip"}
    [] IsElement("Equipment", n) ->
         IF Entry(EquipmentCatalog, n).equip THEN {"item", "equip"} ELSE {"item"}
    [] IsElement("Weapons", n) ->
         IF Entry(WeaponsCatalog, n).equip THEN {"item", "equip"}
         ELSE IF Entry(WeaponsCatalog, n).equipReserve THEN {"item", "equip_reserve"}
         ELSE {"item"}
    [] IsElement("Ammo", n) -> {"item", "count", "applyAfterLoadout"}

\* C13: the rendered mapping of every entry has exactly the key set of its
\* variant, each key once, and no key has a null (None, empty) value.
C13_VariantKeySets ==
  \A n \in AllNames :
    Rendered(n) =>
      /\ n \notin RuneNames => Keys(data[n]) = VariantKeys(n)
      /\ Cardinality(Keys(data[n])) = Len(data[n])
      /\ \A i \in DOMAIN data[n] : data[n][i][2] \notin {"None", ""}

\* a base mod, a mod upgrade and ammoCapacity have all been rendered
C13_Witness ==
  /\ Rendered("ammoCapacity")
  /\ \E i, j \in DOMAIN WeaponModsCatalog :
       /\ WeaponModsCatalog[i].applicableMod = "isBaseMod"
       /\ WeaponModsCatalog[j].applicableMod # "isBaseMod"
       /\ Rendered(WeaponModsCatalog[i].name)
       /\ Rendered(WeaponModsCatalog[j].name)

\* the value written for key k in the rendered mapping d
ValueOf(d, k) == d[CHOOSE i \in DOMAIN d : d[i][1] = k][2]

\* C14: a rendered rune has one of the two shapes {perk, applyUpgradesForPerk,
\* equip} and {perk, applyUpgradesForPerk, isRune}, never both equip and
\* isRune, and a generation renders every available rune in the shape its
\* runePermanentEquip flag selects: equip = true and no isRune with the flag
\* true, isRune = true and no equip with the flag false.
C14_RuneShapes ==
  /\ \A r \in RuneNames :
       Rendered(r) =>
         /\ Keys(data[r]) \in {{"perk", "applyUpgradesForPerk", "equip"},
                               {"perk", "applyUpgradesForPerk", "isRune"}}
         /\ Len(data[r]) = 3
  /\ Generated =>
       \A r \in Range(avail["Runes"]) :
         IF perm[r]
         THEN /\ "isRune" \notin Keys(data[r])
              /\ "equip" \in Keys(data[r]) /\ ValueOf(data[r], "equip") = "true"
         ELSE /\ "equip" \notin Keys(data[r])
              /\ "isRune" \in Keys(data[r]) /\ ValueOf(data[r], "isRune") = "true"

\* a generation rendered an available rune whose flag had been set
C14_Witness ==
  /\ Generated
  /\ \E r \in Range(avail["Runes"]) : perm[r] /\ Rendered(r)

\* C15: rendering is idempotent: an updateModuleData right after the one a
\* generation ran leaves the data of every entry as the first made them, and a
\* generateDeclFile that follows a generateDeclFile writes the same file and
\* leaves the same rendered data.
C15_RenderIdempotent ==
  /\ Generated => \A m \in Modules : UpdateModuleData(m, data, Snapshot) = data
  /\ (Generated /\ prior.op = "generateDeclFile") =>
       (file = prior.file /\ data = prior.data)

\* a second generation in a row, with entries beyond the default ones
C15_Witness ==
  /\ Generated /\ prior.op = "generateDeclFile"
  /\ prior.file.written
  /\ file.num > 1 + Len(InitAvailable["ArgentCellUpgrades"]) + Len(InitAvailable["Weapons"])

\* C16: before any operation Argent's available is [healthCapacity,
\* armorCapacity, ammoCapacity] with every count 0, Weapons' is [fists,
\* pistol] and every other module's is empty; a generation in that state
\* writes num = 6, and the three Argent items (item[1..3]) with count = 0.
C16_InitialState ==
  /\ steps = 0 =>
       /\ avail["ArgentCellUpgrades"] = <<"healthCapacity", "armorCapacity", "ammoCapacity">>
       /\ \A c \in {"healthCapacity", "armorCapacity", "ammoCapacity"} : count[c] = 0
       /\ avail["Weapons"] = <<"fists", "pistol">>
       /\ \A m \in Modules \ {"ArgentCellUpgrades", "Weapons"} : avail[m] = <<>>
  /\ (Generated /\ steps = 1) =>
       /\ file.num = 6
       /\ Len(file.items) = 6
       /\ \A i \in 2..4 :
            /\ "perk" \in Keys(file.items[i].body)
            /\ ValueOf(file.items[i].body, "perk")
                 = PathOf("ArgentCellUpgrades", avail["ArgentCellUpgrades"][i - 1])
            /\ ValueOf(file.items[i].body, "count") = "0"

\* the file generated as the first operation on a fresh Inventory
C16_Witness == Generated /\ steps = 1 /\ file.written

(***************************************************************************)
(* Claims about App.generateMod.                                           *)
(***************************************************************************)
\* C17: a generation that succeeds has written one file per game level of
\* LEVEL_INHERITANCE_MAP, the file of level L with parent P holding the line
\* inherit = "devinvloadout/sp/P"; and an empty edit block.
C17_OneFilePerLevel ==
  (last.op = "generateMod" /\ last.name = "none") =>
    \A l \in Levels :
      levelFiles[l] =
        [written |-> TRUE, inherit |-> <<"devinvloadout/sp/", LEVEL_INHERITANCE_MAP[l]>>,
         edit |-> <<>>]

\* C18: a generateMod or generateDeclFile run, whether it succeeds, returns
\* because no install path is set or fails on a file-system error, leaves
\* every available list and every count and rune flag as they were.
C18_GenerationKeepsSelection ==
  last.op \in {"generateMod", "generateDeclFile"} =>
    /\ avail = pre.avail
    /\ count = pre.count
    /\ upg = pre.upg
    /\ perm = pre.perm

\* a generateMod run that failed after the base file and one level file were
\* written, on a selection that is not the initial one
C18_Witness ==
  /\ last.op = "generateMod" /\ last.name = "levelOpen2" /\ raised = "OSError"
  /\ file.written
  /\ avail # InitAvailable

\* the item block written for the entry at position i of module m's available
ItemOf(m, i) ==
  file.items[CHOOSE j \in DOMAIN file.items :
               file.items[j].index = 1 + LenBefore(
                 CHOOSE k \in DOMAIN RegistryOrder : RegistryOrder[k] = m) + (i - 1)]

\* C19: what a generateDeclFile run writes for an available entry is the
\* render of the entry's field values at that time: an Argent item has the
\* category's current count, a rune item the current applyUpgradesForPerk
\* and the shape of the current runePermanentEquip, and every item equals
\* the entry's refreshed data.
C19_WrittenIsFreshRender ==
  Generated =>
    /\ \A m \in Modules : \A i \in DOMAIN avail[m] :
         /\ ItemOf(m, i).body = data[avail[m][i]]
         /\ ItemOf(m, i).body # <<>>
         /\ ItemOf(m, i).body[1][2] = PathOf(m, avail[m][i])
    /\ \A i \in DOMAIN avail["ArgentCellUpgrades"] :
         ValueOf(ItemOf("ArgentCellUpgrades", i).body, "count")
           = ToString(count[avail["ArgentCellUpgrades"][i]])
    /\ \A i \in DOMAIN avail["Runes"] :
         LET r == avail["Runes"][i]
             b == ItemOf("Runes", i).body
         IN  /\ ValueOf(b, "applyUpgradesForPerk") = (IF upg[r] THEN "true" ELSE "false")
             /\ Keys(b) = {"perk", "applyUpgradesForPerk",
                           IF perm[r] THEN "equip" ELSE "isRune"}

\* a generation after a flag of an available rune was flipped, or after a
\* count was changed that an earlier generation had already written
C19_Witness ==
  /\ Generated
  /\ \/ /\ prior.op = "runePermEquipCallback"
        /\ InList("vacuum", avail["Runes"]) /\ perm["vacuum"]
     \/ /\ prior.op = "argentCallback"
        /\ prior.file.written
        /\ prior.file # file

(***************************************************************************)
(* Claims about the Argent upgrade limit at the level of the App.          *)
(***************************************************************************)
\* C20: in every reachable state, whatever setArgentLevel calls the dropdowns
\* and the 'All Upgrades' switch have made, at least one of the three
\* categories is below level 4.
C20_SlotRemainsOpen ==
  \E c \in {"healthCapacity", "armorCapacity", "ammoCapacity"} : count[c] < 4

\* the 'All Upgrades' switch was switched on: health and armor were raised
\* to 4 and the request for ammo was downgraded to 3
C20_Witness ==
  /\ last.op = "toggleAllArgentUpgrades" /\ last.flag
  /\ count["healthCapacity"] = 4 /\ count["armorCapacity"] = 4
  /\ count["ammoCapacity"] = 3

(***************************************************************************)
(* C21: after setAllAreUpgraded(v) every rune of the catalog has           *)
(* applyUpgradesForPerk equal to v, after setAllArePermEquip(v) every rune *)
(* has runePermanentEquip equal to v, for v True and v False and whatever  *)
(* the flags were before; and after the 'All Runes Unlocked' switch is     *)
(* turned off every rune has both flags False.                             *)
(***************************************************************************)
C21_BulkSetterSetsAll ==
  /\ last.op = "setAllAreUpgraded" => \A r \in RuneNames : upg[r] = last.flag
  /\ last.op = "setAllArePermEquip" => \A r \in RuneNames : perm[r] = last.flag
  /\ (last.op = "toggleAllRunesAvailable" /\ ~last.flag)
       => \A r \in RuneNames : ~upg[r] /\ ~perm[r]

(***************************************************************************)
(* C22: toggleAllBaseModsAvailable(v) makes every base mod available       *)
(* exactly when v is true and keeps the availability of every non-base     *)
(* mod; toggleAllModUpgradesAvailable(v) makes every non-base mod          *)
(* available exactly when v is true and keeps the availability of every    *)
(* base mod.                                                               *)
(***************************************************************************)
ModNames == Range(CatalogNames("WeaponMods"))

C22_ComplementaryToggles ==
  /\ last.op = "toggleAllBaseModsAvailable" =>
       \A n \in ModNames :
         InList(n, avail["WeaponMods"]) =
           (IF IsBaseMod(n) THEN last.flag ELSE InList(n, pre.avail["WeaponMods"]))
  /\ last.op = "toggleAllModUpgradesAvailable" =>
       \A n \in ModNames :
         InList(n, avail["WeaponMods"]) =
           (IF IsBaseMod(n) THEN InList(n, pre.avail["WeaponMods"]) ELSE last.flag)

\* the base mods were switched off while mod upgrades were available, and
\* the mod upgrades stayed
C22_Witness ==
  /\ last.op = "toggleAllBaseModsAvailable"
  /\ ~last.flag
  /\ \E n \in ModNames : IsBaseMod(n) /\ InList(n, pre.avail["WeaponMods"])
  /\ \E n \in ModNames : ~IsBaseMod(n) /\ InList(n, avail["WeaponMods"])
  /\ \A n \in ModNames : IsBaseMod(n) => ~InList(n, avail["WeaponMods"])

(***************************************************************************)
(* C23: WeaponMods.addToAvailable(weapon, mod), for a mod of the catalog,  *)
(* appends mod to available when its applicableWeapon is weapon and it is  *)
(* not yet available, and leaves available unchanged for a mod of another  *)
(* weapon or a mod already available; a name that is no mod of the        *)
(* catalog is never appended.                                              *)
(***************************************************************************)
C23_AddModOfThatWeaponOnly ==
  last.op = "WeaponMods.addToAvailable" =>
    IF IsElement("WeaponMods", last.name)
    THEN /\ raised = "none"
         /\ avail = [pre.avail EXCEPT !["WeaponMods"] =
                       IF ApplicableWeaponOf(last.name) = last.weapon
                          /\ ~InList(last.name, pre.avail["WeaponMods"])
                       THEN Append(pre.avail["WeaponMods"], last.name)
                       ELSE pre.avail["WeaponMods"]]
    ELSE avail = pre.avail

\* a mod of another weapon was refused
C23_Witness ==
  /\ last.op = "WeaponMods.addToAvailable"
  /\ IsElement("WeaponMods", last.name)
  /\ ApplicableWeaponOf(last.name) # last.weapon
  /\ ~InList(last.name, avail["WeaponMods"])
  /\ prior.op = "WeaponMods.addToAvailable"
  /\ Len(avail["WeaponMods"]) = 1

(***************************************************************************)
(* C24: a click on the 'Upgraded' checkbox of the panel built for rune R   *)
(* flips applyUpgradesForPerk of R and of no other rune, and a click on    *)
(* its 'Permanently Equipped' checkbox flips runePermanentEquip of R and   *)
(* of no other rune.                                                       *)
(***************************************************************************)
C24_CheckboxFlipsOwnRune ==
  /\ last.op = "runeUpgradedCallback" =>
       /\ upg = [pre.upg EXCEPT ![last.mod] = ~pre.upg[last.mod]]
       /\ perm = pre.perm
  /\ last.op = "runePermEquipCallback" =>
       /\ perm = [pre.perm EXCEPT ![last.mod] = ~pre.perm[last.mod]]
       /\ upg = pre.upg

(***************************************************************************)
(* C25: setArgentLevel(c, L) with L the count category c already has       *)
(* returns L and leaves the three counts as they were, also when L is 4.   *)
(***************************************************************************)
C25_ReselectIsNoOp ==
  (/\ last.op = "setArgentLevel"
   /\ last.name \in ArgentNames
   /\ last.level = pre.count[last.name]) =>
     /\ ret = RetInt(last.level)
     /\ count = pre.count

(***************************************************************************)
(* C26: setArgentLevel(c, l) changes at most the count of category c: the  *)
(* counts of the other categories, every available list and the rune       *)
(* flags are as before, and no count changes when c is not the name of an  *)
(* available Argent perk.                                                  *)
(***************************************************************************)
C26_OnlyThatCategory ==
  last.op = "setArgentLevel" =>
    /\ \A c \in ArgentNames \ {last.name} : count[c] = pre.count[c]
    /\ avail = pre.avail
    /\ upg = pre.upg /\ perm = pre.perm
    /\ ~InList(last.name, pre.avail["ArgentCellUpgrades"]) => count = pre.count

\* a call that changed its category while another category held a level
C26_Witness ==
  /\ last.op = "setArgentLevel"
  /\ last.name \in ArgentNames
  /\ count[last.name] # pre.count[last.name]
  /\ \E c \in ArgentNames \ {last.name} : count[c] > 0

(***************************************************************************)
(* C27: in every reachable state no module's available list holds the same *)
(* entry twice, and a generated file holds no entry twice.                 *)
(***************************************************************************)
NoDuplicates(s) == \A i, j \in DOMAIN s : s[i] = s[j] => i = j

\* the paths of the entries written into base.decl, in file order (item[0],
\* the base item, has no path)
WrittenPaths == [i \in 1..(Len(file.items) - 1) |-> file.items[i + 1].body[1][2]]

C28_MembersOfOwnCatalog ==
  \A m \in Modules : \A i \in DOMAIN avail[m] : IsElement(m, avail[m][i])

\* a weapon that is not available was toggled, which hands its name to the
\* Equipment module, while Equipment had entries
C28_Witness ==
  /\ last.op = "weaponsCallback"
  /\ ~InList(last.name, pre.avail["Weapons"])
  /\ raised = "none"
  /\ Len(avail["Equipment"]) > 0

(***************************************************************************)
(* C29: the parent of every level file written by makeLevelInheritanceDecls *)
(* is 'base' or a level whose file is written too, and the parent links    *)
(* lead from every written level to 'base' without a cycle.                *)
(***************************************************************************)
\* the level a written level file inherits from
ParentOf(l) == levelFiles[l].inherit[2]

\* following the parent links from l reaches 'base' over written files only,
\* within n links
RECURSIVE ReachesBase(_, _)
ReachesBase(l, n) ==
  IF l = "base" THEN TRUE
  ELSE IF n = 0 \/ l \notin Levels THEN FALSE
  ELSE levelFiles[l].written /\ ReachesBase(ParentOf(l), n - 1)

C29_ClosedInheritanceChain ==
  \A l \in Levels :
    levelFiles[l].written =>
      /\ ParentOf(l) = "base" \/ (ParentOf(l) \in Levels /\ levelFiles[ParentOf(l)].written)
      /\ ReachesBase(l, Cardinality(Levels))

====
